---- MODULE Spec2Model ----
(***************************************************************************)
(* A model of the documentation/dependency audit scripts:                  *)
(*   scripts/analyze_dependencies.py  (analyze_imports,                    *)
(*                                     build_dependency_graph,             *)
(*                                     find_circular_dependencies)         *)
(*   scripts/fix_broken_links.py      (build_file_cache, resolve_link,     *)
(*                                     find_correct_path,                  *)
(*                                     fix_links_in_file,                  *)
(*                                     process_all_files)                  *)
(* Each script is a separate program, so each has its own specification    *)
(* over the shared variable list: SpecCycles, SpecImports, SpecLinks,      *)
(* SpecScore (find_correct_path as a function of the index) and SpecGraph  *)
(* (build_dependency_graph followed by find_circular_dependencies); Spec   *)
(* is any one of them.                                                     *)
(***************************************************************************)
EXTENDS Integers, Sequences, FiniteSets, TLC

VARIABLES
    pc,                 \* position of the running program
    \* ---- find_circular_dependencies ----
    graph,              \* the dict: [keys: iteration order, adj: key -> edge list]
    visited,            \* set `visited`
    rec_stack,          \* set `rec_stack` of the current root call
    circulars,          \* list `circulars` (shared by every dfs call)
    unique_circulars,   \* list `unique_circulars`, the return value
    stack,              \* call stack of dfs: frames [node, path, edges, i]
    root_idx,           \* position of `for node in graph`
    frames,             \* frames on the interpreter's stack when dfs is first called
    \* ---- analyze_imports ----
    file_readable,      \* whether open()/read() of file_path succeeds
    file_text,          \* the text of the file at file_path
    content,            \* local `content` (of analyze_imports and of fix_links_in_file)
    imports,            \* list `imports`
    pattern_idx,        \* position of `for pattern in import_patterns`
    \* ---- fix_broken_links ----
    tree,               \* the files on disk: path -> [kind, text, writable, sound]
    tree_before,        \* the files on disk when the run started
    walk,               \* the listing of BASE_DIR.rglob that a lone lookup is indexed from
    dry_run,            \* argument `dry_run`
    run,                \* "first" or "second" run of the pass over the tree
    cwd,                \* os.getcwd(): the directory the process was started in
    file_cache,         \* dict `file_cache`: file name -> list of paths
    stats,              \* dict `stats`
    fixes_by_pattern,   \* dict `fixes_by_pattern`: pattern key -> count
    unfixable_links,    \* list `unfixable_links`
    md_files,           \* list `md_files` of process_all_files
    file_idx,           \* position of `for i, md_file in enumerate(md_files, 1)`
    modified_files,     \* list `modified_files`
    original_content,   \* local `original_content`
    links,              \* local `links`
    link_idx,           \* position of `for full_match, link_text, link_url in links`
    file_stats,         \* local `file_stats`
    lookups,            \* history: the calls of find_correct_path made so far
    \* ---- one call of find_correct_path ----
    lookup_source,      \* argument `source_file`
    lookup_link,        \* argument `broken_link`
    lookup_result,      \* the value returned
    \* ---- build_dependency_graph ----
    sources,            \* the files under root_dir: path -> [readable, text]
    files,              \* list `files`
    file_pos            \* position of `for file_path in files`

cycVars == <<graph, visited, rec_stack, circulars, unique_circulars, stack, root_idx, frames>>

impVars == <<file_readable, file_text, content, imports, pattern_idx>>

\* the variables of fix_broken_links other than `content`
lnkVars == <<tree, tree_before, walk, dry_run, run, cwd, file_cache, stats, fixes_by_pattern,
             unfixable_links, md_files, file_idx, modified_files, original_content,
             links, link_idx, file_stats, lookups>>

scoVars == <<lookup_source, lookup_link, lookup_result>>

bldVars == <<sources, files, file_pos>>

vars == <<pc, cycVars, impVars, lnkVars, scoVars, bldVars>>

notCycVars == <<impVars, lnkVars, scoVars, bldVars>>

notImpVars == <<cycVars, lnkVars, scoVars, bldVars>>

notLnkVars == <<cycVars, file_readable, file_text, imports, pattern_idx, scoVars, bldVars>>

(***************************************************************************)
(* Generic sequence helpers.                                               *)
(***************************************************************************)
Range(s) == {s[i] : i \in 1..Len(s)}

Contains(s, x) == \E i \in 1..Len(s) : s[i] = x

\* list.index(x): position of the first occurrence (0 when absent, where
\* Python raises ValueError).
IndexOf(s, x) ==
    IF Contains(s, x) THEN CHOOSE i \in 1..Len(s) : s[i] = x /\ \A j \in 1..(i-1) : s[j] # x
    ELSE 0

Last(s) == s[Len(s)]

Front(s) == SubSeq(s, 1, Len(s) - 1)

(***************************************************************************)
(* find_circular_dependencies                                              *)
(***************************************************************************)
MaxNodes == 3
MaxEdges == 4

Nodes == 1..MaxNodes

\* Edge lists are produced from a sequence of (source, target) pairs sorted
\* by source: the edge list of a key keeps the order of its pairs, so every
\* ordered edge list with duplicates is produced. Keys are 1..n in iteration
\* order; a target above n has no entry in the dict.
EdgesFrom(es, k) ==
    LET F[i \in 0..Len(es)] ==
            IF i = 0 THEN <<>>
            ELSE IF es[i][1] = k THEN Append(F[i-1], es[i][2]) ELSE F[i-1]
    IN F[Len(es)]

MkGraph(n, es) ==
    [keys |-> [i \in 1..n |-> i], adj |-> [k \in 1..n |-> EdgesFrom(es, k)]]

SortedBySource(es) == \A i \in 1..(Len(es)-1) : es[i][1] <= es[i+1][1]

IsInputGraph(g) ==
    \E n \in 0..MaxNodes, m \in 0..MaxEdges :
        \E es \in [1..m -> (1..n) \X Nodes] :
            SortedBySource(es) /\ g = MkGraph(n, es)

\* sys.getrecursionlimit(): the most frames the interpreter's stack may hold;
\* the script leaves it at the interpreter's default
RecursionLimit == 1000

\* the frames in use when the script is run directly and dfs is first called:
\* the module's (line 191) and that of find_circular_dependencies
CallerFrames == 2

\* the frames in use when dfs is first called: those of the script run
\* directly, and those of a caller deep enough for the searches of the input
\* graphs to reach the limit at their second or third nested call
FramesInUse == {CallerFrames, RecursionLimit - 3, RecursionLimit - 2}

\* a call of dfs (lines 82, 97) made with `depth` calls of dfs on the stack
\* raises RecursionError when its frame would be the RecursionLimit-th
StackExhausted(in_use, depth) == in_use + depth + 1 >= RecursionLimit

\* `node in graph` (line 79)
HasEntry(g, node) == node \in DOMAIN g.adj

\* `graph[node]` (line 80): the edge list, or KeyError when the key is absent
GraphGetItem(g, node) ==
    IF node \in DOMAIN g.adj
    THEN [raised |-> FALSE, value |-> g.adj[node]]
    ELSE [raised |-> TRUE, value |-> <<>>]

\* Entry of dfs(node, path, visited, rec_stack): lines 75-80. The frame holds
\* the node, the callee's own path list (path + [node]), the list the for
\* loop iterates (none when the guard of line 79 fails) and the loop position.
EnterFrame(g, node, path) ==
    LET got == IF HasEntry(g, node) THEN GraphGetItem(g, node)
               ELSE [raised |-> FALSE, value |-> <<>>]
    IN [node |-> node, path |-> Append(path, node), edges |-> got.value,
        i |-> 1, raised |-> got.raised]

\* A bug that tests the recursion stack without the node being expanded (as
\* if rec_stack.add(node) came after the loop): self-edges are not seen.
OnRecStackLate(rs, node, neighbor) == neighbor \in rs \ {node}

\* A bug that records a cycle only when it closes at the node the traversal
\* started from.
OnRecStackAtRoot(rs, node, neighbor) == neighbor \in rs /\ neighbor = stack[1].node

\* `neighbor in rec_stack` (line 85), evaluated in the call of `node`
OnRecStack(rs, node, neighbor) == neighbor \in rs

\* `neighbor not in visited` (line 81)
NotVisited(v, neighbor) == neighbor \notin v

\* A bug that records the whole path instead of the part from cycle_start.
WholePath(path, neighbor) == Append(path, neighbor)

\* lines 87-88: cycle_start = path.index(neighbor); cycle = path[cycle_start:] + [neighbor]
CycleFrom(path, neighbor) ==
    Append(SubSeq(path, IndexOf(path, neighbor), Len(path)), neighbor)

\* lines 83-84 in the caller: result is the list object `circulars` itself, so
\* a non-empty result extends the list with its own elements.
ExtendWithResult(c) == IF c # <<>> THEN c \o c ELSE c

\* lines 99-105: keep the first occurrence of every sequence
RECURSIVE RemoveDuplicatesFrom(_, _)
RemoveDuplicatesFrom(cs, kept) ==
    IF cs = <<>> THEN kept
    ELSE RemoveDuplicatesFrom(Tail(cs),
            IF Contains(kept, Head(cs)) THEN kept ELSE Append(kept, Head(cs)))

\* A bug that returns the traversal's list as it is.
KeepDuplicates(cs) == cs

\* A bug that compares cycles by their start node instead of the sequence.
RECURSIVE RemoveSameStartFrom(_, _)
RemoveSameStartFrom(cs, kept) ==
    IF cs = <<>> THEN kept
    ELSE RemoveSameStartFrom(Tail(cs),
            IF \E i \in 1..Len(kept) : kept[i][1] = Head(cs)[1]
            THEN kept ELSE Append(kept, Head(cs)))

RemoveSameStart(cs) == RemoveSameStartFrom(cs, <<>>)

\* A bug that compares a cycle only with the one kept just before it.
RECURSIVE RemoveRepeatsFrom(_, _)
RemoveRepeatsFrom(cs, kept) ==
    IF cs = <<>> THEN kept
    ELSE RemoveRepeatsFrom(Tail(cs),
            IF kept # <<>> /\ Last(kept) = Head(cs) THEN kept ELSE Append(kept, Head(cs)))

RemoveRepeats(cs) == RemoveRepeatsFrom(cs, <<>>)

RemoveDuplicates(cs) == RemoveDuplicatesFrom(cs, <<>>)

\* the variables of build_dependency_graph while another program runs
IdleBuild ==
    /\ sources = <<>>
    /\ files = <<>>
    /\ file_pos = 1

\* the variables of find_circular_dependencies while another program runs
IdleCycles ==
    /\ graph = [keys |-> <<>>, adj |-> <<>>]
    /\ visited = {}
    /\ rec_stack = {}
    /\ circulars = <<>>
    /\ unique_circulars = <<>>
    /\ stack = <<>>
    /\ root_idx = 1
    /\ frames = CallerFrames

\* the variables of fix_broken_links while another program runs
IdlePass ==
    /\ tree = <<>>
    /\ tree_before = <<>>
    /\ dry_run = FALSE
    /\ run = "first"
    /\ stats = <<>>
    /\ fixes_by_pattern = <<>>
    /\ unfixable_links = <<>>
    /\ md_files = <<>>
    /\ file_idx = 1
    /\ modified_files = <<>>
    /\ original_content = <<>>
    /\ links = <<>>
    /\ link_idx = 1
    /\ file_stats = <<>>
    /\ lookups = <<>>

IdleLinks ==
    /\ IdlePass
    /\ cwd = <<>>
    /\ walk = <<>>
    /\ file_cache = <<>>

\* the variables of a find_correct_path call while another program runs
IdleScore ==
    /\ lookup_source = <<>>
    /\ lookup_link = <<>>
    /\ lookup_result = <<>>

\* the variables of analyze_imports while another program runs
IdleImports ==
    /\ file_readable = TRUE
    /\ file_text = <<>>
    /\ content = <<>>
    /\ imports = <<>>
    /\ pattern_idx = 1

InitCycles ==
    /\ pc = "roots"
    /\ IdleImports
    /\ IdleLinks
    /\ IdleScore
    /\ IdleBuild
    /\ IsInputGraph(graph)
    /\ visited = {}
    /\ rec_stack = {}
    /\ circulars = <<>>
    /\ unique_circulars = <<>>
    /\ stack = <<>>
    /\ root_idx = 1
    /\ frames \in FramesInUse

Top == stack[Len(stack)]

\* lines 95-97, a key that is not yet visited: dfs(node, [], visited, set())
CallRoot ==
    /\ pc = "roots"
    /\ root_idx <= Len(graph.keys)
    /\ graph.keys[root_idx] \notin visited
    /\ LET node == graph.keys[root_idx]
           f == EnterFrame(graph, node, <<>>)
       IN IF StackExhausted(frames, 0)
          THEN /\ pc' = "recursion_error"
               /\ UNCHANGED <<visited, rec_stack, stack>>
          ELSE /\ visited' = visited \cup {node}
               /\ rec_stack' = {node}
               /\ stack' = <<f>>
               /\ pc' = IF f.raised THEN "raised" ELSE "dfs"
    /\ UNCHANGED <<notCycVars, graph, circulars, unique_circulars, root_idx, frames>>

\* lines 95-96, a key already visited
SkipRoot ==
    /\ pc = "roots"
    /\ root_idx <= Len(graph.keys)
    /\ graph.keys[root_idx] \in visited
    /\ root_idx' = root_idx + 1
    /\ UNCHANGED <<notCycVars, pc, graph, visited, rec_stack, circulars, unique_circulars, stack, frames>>

\* lines 80-82: the neighbour is not visited, recurse with a copy of the
\* path; when the interpreter's stack is full the call raises RecursionError,
\* which nothing catches
EdgeRecurse ==
    /\ pc = "dfs"
    /\ Top.i <= Len(Top.edges)
    /\ NotVisited(visited, Top.edges[Top.i])
    /\ LET neighbor == Top.edges[Top.i]
           f == EnterFrame(graph, neighbor, Top.path)
       IN IF StackExhausted(frames, Len(stack))
          THEN /\ pc' = "recursion_error"
               /\ UNCHANGED <<visited, rec_stack, stack>>
          ELSE /\ visited' = visited \cup {neighbor}
               /\ rec_stack' = rec_stack \cup {neighbor}
               /\ stack' = Append(stack, f)
               /\ pc' = IF f.raised THEN "raised" ELSE "dfs"
    /\ UNCHANGED <<notCycVars, graph, circulars, unique_circulars, root_idx, frames>>

\* lines 85-89: the neighbour is on the recursion stack, a cycle is recorded
EdgeCycle ==
    /\ pc = "dfs"
    /\ Top.i <= Len(Top.edges)
    /\ ~NotVisited(visited, Top.edges[Top.i])
    /\ OnRecStack(rec_stack, Top.node, Top.edges[Top.i])
    /\ LET neighbor == Top.edges[Top.i]
       IN IF Contains(Top.path, neighbor)
          THEN /\ circulars' = Append(circulars, CycleFrom(Top.path, neighbor))
               /\ stack' = [stack EXCEPT ![Len(stack)].i = @ + 1]
               /\ pc' = pc
          ELSE \* path.index raises ValueError
               /\ pc' = "raised"
               /\ UNCHANGED <<circulars, stack>>
    /\ UNCHANGED <<notCycVars, graph, visited, rec_stack, unique_circulars, root_idx, frames>>

\* lines 81/85: the neighbour is visited and not on the recursion stack
EdgeSkip ==
    /\ pc = "dfs"
    /\ Top.i <= Len(Top.edges)
    /\ ~NotVisited(visited, Top.edges[Top.i])
    /\ ~OnRecStack(rec_stack, Top.node, Top.edges[Top.i])
    /\ stack' = [stack EXCEPT ![Len(stack)].i = @ + 1]
    /\ UNCHANGED <<notCycVars, pc, graph, visited, rec_stack, circulars, unique_circulars, root_idx, frames>>

\* lines 91-92 and, in the caller, lines 82-84: the loop is over, the node
\* leaves the recursion stack and `circulars` is returned; a recursive caller
\* extends `circulars` with the (non-empty) result, the root loop discards it.
Return ==
    /\ pc = "dfs"
    /\ Top.i > Len(Top.edges)
    /\ rec_stack' = rec_stack \ {Top.node}
    /\ IF Len(stack) > 1
       THEN /\ stack' = [Front(stack) EXCEPT ![Len(stack) - 1].i = @ + 1]
            /\ circulars' = ExtendWithResult(circulars)
            /\ UNCHANGED <<pc, root_idx>>
       ELSE /\ stack' = <<>>
            /\ pc' = "roots"
            /\ root_idx' = root_idx + 1
            /\ UNCHANGED circulars
    /\ UNCHANGED <<notCycVars, graph, visited, unique_circulars, frames>>

\* lines 99-105: the keys are exhausted, duplicates are removed and the list
\* is returned
Finish ==
    /\ pc = "roots"
    /\ root_idx > Len(graph.keys)
    /\ unique_circulars' = RemoveDuplicates(circulars)
    /\ pc' = "done"
    /\ UNCHANGED <<notCycVars, graph, visited, rec_stack, circulars, stack, root_idx, frames>>

NextCycles ==
    \/ CallRoot
    \/ SkipRoot
    \/ EdgeRecurse
    \/ EdgeCycle
    \/ EdgeSkip
    \/ Return
    \/ Finish

SpecCycles == InitCycles /\ [][NextCycles]_vars

\* the function runs in one thread, which takes its next step whenever it
\* has one
SpecCyclesFair == SpecCycles /\ WF_vars(NextCycles)

(***************************************************************************)
(* Properties of find_circular_dependencies                                *)
(***************************************************************************)
Returned == Range(unique_circulars)

IsEdge(g, x, y) == x \in DOMAIN g.adj /\ Contains(g.adj[x], y)

Successors(g, S) == UNION {Range(g.adj[x]) : x \in S \cap DOMAIN g.adj}

\* nodes reachable from v by one or more edges
ReachFrom(g, v) ==
    LET F[k \in 0..Len(g.keys)] ==
            IF k = 0 THEN Successors(g, {v})
            ELSE F[k-1] \cup Successors(g, F[k-1])
    IN F[Len(g.keys)]

OnSomeCycle(g, v) == v \in ReachFrom(g, v)

SameComponent(g, v, w) == v = w \/ (w \in ReachFrom(g, v) /\ v \in ReachFrom(g, w))

\* the simple cycles of g, each as a sequence of distinct keys v1..vk with
\* edges v1->v2, ..., vk->v1
SimpleCycles(g) ==
    {c \in UNION {[1..k -> DOMAIN g.adj] : k \in 1..Len(g.keys)} :
        /\ \A i, j \in 1..Len(c) : i # j => c[i] # c[j]
        /\ \A i \in 1..Len(c) : IsEdge(g, c[i], c[(i % Len(c)) + 1])}

\* c entered at offset k and closed: c[k], c[k+1], ..., c[k]
ClosedAt(c, k) == [i \in 1..(Len(c) + 1) |-> c[((k + i - 2) % Len(c)) + 1]]

Reported(c) == \E k \in 1..Len(c) : ClosedAt(c, k) \in Returned

\* C1 as stated: every simple cycle of the graph is in the returned list
\* (as a closed sequence, entered at some offset).
C1_EverySimpleCycleReported ==
    pc = "done" => \A c \in SimpleCycles(graph) : Reported(c)

\* C1 amended: for every node that lies on a cycle, the returned list holds a
\* sequence lying wholly in that node's strongly connected component, so every
\* component that has a cycle is reported at least once.
C1_EveryCyclicComponentReported ==
    pc = "done" =>
        \A v \in DOMAIN graph.adj :
            OnSomeCycle(graph, v) =>
                \E r \in Returned : \A i \in 1..Len(r) : SameComponent(graph, v, r[i])

\* a graph with two simple cycles through one component, one of them not
\* reported, has been traversed
C1_Witness ==
    /\ pc = "done"
    /\ Cardinality(SimpleCycles(graph)) >= 2
    /\ \E c \in SimpleCycles(graph) : ~Reported(c)
    /\ \A v \in DOMAIN graph.adj : OnSomeCycle(graph, v)

\* a single directed ring over all n keys: every key has exactly one edge, to
\* a key, and the successors of the first key run through all keys
RingSeq(g) ==
    LET F[i \in 1..(Len(g.keys) + 1)] ==
            IF i = 1 THEN g.keys[1] ELSE g.adj[F[i-1]][1]
    IN F

IsRing(g) ==
    /\ Len(g.keys) >= 1
    /\ \A k \in DOMAIN g.adj : Len(g.adj[k]) = 1 /\ g.adj[k][1] \in DOMAIN g.adj
    /\ {RingSeq(g)[i] : i \in 1..Len(g.keys)} = DOMAIN g.adj
    /\ RingSeq(g)[Len(g.keys) + 1] = g.keys[1]

\* C2: on a ring of n keys the result is exactly one sequence, of length n+1,
\* from the first key iterated round the ring back to it.
C2_RingYieldsOneCycle ==
    (pc = "done" /\ IsRing(graph)) =>
        /\ unique_circulars = <<RingSeq(graph)>>
        /\ Len(unique_circulars[1]) = Len(graph.keys) + 1
        /\ unique_circulars[1][1] = graph.keys[1]
        /\ Last(unique_circulars[1]) = graph.keys[1]

\* a ring of three keys was traversed and the results propagated up the
\* recursion left copies in `circulars`
C2_Witness ==
    /\ pc = "done"
    /\ IsRing(graph)
    /\ Len(graph.keys) = 3
    /\ Len(circulars) > 1

NoOutgoingEdges(g, x) == x \notin DOMAIN g.adj \/ g.adj[x] = <<>>

\* the exceptions the traversal can end with: KeyError and ValueError
\* ("raised"), RecursionError
Failed == {"raised", "recursion_error"}

\* the next step follows an edge to a target that has no entry in the map
FollowsEdgeToAbsent ==
    /\ pc = "dfs"
    /\ Top.i <= Len(Top.edges)
    /\ NotVisited(visited, Top.edges[Top.i])
    /\ ~HasEntry(graph, Top.edges[Top.i])

\* the nodes without outgoing edges are in no returned cycle
LeavesInNoCycle ==
    pc = "done" =>
        \A r \in Returned : \A i \in 1..Len(r) : ~NoOutgoingEdges(graph, r[i])

FirstIndex(s, x) == IndexOf(s, x)

\* C4: the result has no two equal sequences, holds exactly the sequences
\* discovered (equal as sequences, nothing else merged) and keeps them in
\* the order of their first discovery.
C4_ExactDuplicatesRemovedOnly ==
    pc = "done" =>
        /\ \A i, j \in 1..Len(unique_circulars) :
              i # j => unique_circulars[i] # unique_circulars[j]
        /\ Returned = Range(circulars)
        /\ \A i, j \in 1..Len(unique_circulars) :
              i < j => FirstIndex(circulars, unique_circulars[i])
                         < FirstIndex(circulars, unique_circulars[j])

\* the traversal discovered two different sequences with the same start node
\* and `circulars` held duplicates when it ended
C4_Witness ==
    /\ pc = "done"
    /\ Len(circulars) > Len(unique_circulars)
    /\ \E i, j \in 1..Len(unique_circulars) :
          i # j /\ unique_circulars[i][1] = unique_circulars[j][1]

(***************************************************************************)
(* analyze_imports                                                         *)
(*                                                                         *)
(* A text is a sequence of tokens. A token stands for one character of the *)
(* classes the patterns tell apart (a blank, a line break, a quote, a      *)
(* parenthesis) or for a run of other characters that no pattern splits    *)
(* (a keyword, an identifier, a module path).                              *)
(***************************************************************************)
SP == " "
NL == "\n"
DQ == "\""
SQ == "'"

IsSpace(t) == t \in {SP, NL}           \* \s
IsQuote(t) == t \in {DQ, SQ}           \* ['\"]
IsDot(t) == t # NL                     \* . (no line break)

\* ['\"]([^'\"]+)['\"] with the opening quote at q: the closing quote is the
\* next quote, the group is what lies between (at least one token).
QuotedAt(toks, q) ==
    IF q <= Len(toks) /\ IsQuote(toks[q]) /\ (\E e \in (q+1)..Len(toks) : IsQuote(toks[e]))
    THEN LET e == CHOOSE e \in (q+1)..Len(toks) :
                      IsQuote(toks[e]) /\ \A k \in (q+1)..(e-1) : ~IsQuote(toks[k])
         IN IF e > q + 1
            THEN [ok |-> TRUE, group |-> SubSeq(toks, q+1, e-1), end |-> e]
            ELSE [ok |-> FALSE, group |-> <<>>, end |-> 0]
    ELSE [ok |-> FALSE, group |-> <<>>, end |-> 0]

NoMatch == [ok |-> FALSE, group |-> <<>>, end |-> 0]

\* \s+ starting at p: the position after the longest run of blanks (p when
\* there is none)
AfterSpaces(toks, p) ==
    IF \E k \in p..(Len(toks) + 1) : k > Len(toks) \/ ~IsSpace(toks[k])
    THEN CHOOSE k \in p..(Len(toks) + 1) :
            /\ (k > Len(toks) \/ ~IsSpace(toks[k]))
            /\ \A j \in p..(k-1) : IsSpace(toks[j])
    ELSE p

\* \s+from\s+['\"]([^'\"]+)['\"] starting at p (both runs of blanks are
\* followed by a token that is no blank, so they are matched whole)
SpaceFromQuotedAt(toks, p) ==
    LET f == AfterSpaces(toks, p)
        q == AfterSpaces(toks, f + 1)
    IN IF f > p /\ f <= Len(toks) /\ toks[f] = "from" /\ q > f + 1
       THEN QuotedAt(toks, q)
       ELSE NoMatch

\* (?:.*?\s+from\s+)['\"]([^'\"]+)['\"] starting at s: the lazy .*? takes the
\* fewest tokens (none of them a line break) after which the rest matches
LazyGroupAt(toks, s) ==
    LET Fits(b) == /\ \A k \in s..(s + b - 1) : IsDot(toks[k])
                   /\ SpaceFromQuotedAt(toks, s + b).ok
        bs == {b \in 0..(Len(toks) - s + 1) : Fits(b)}
    IN IF bs = {} THEN NoMatch
       ELSE SpaceFromQuotedAt(toks, s + (CHOOSE b \in bs : \A c \in bs : b <= c))

\* the rest of pattern 1 after `import` and `a` blanks: the optional group is
\* tried first, then the quoted string alone
AfterImportAt(toks, s) ==
    IF LazyGroupAt(toks, s).ok THEN LazyGroupAt(toks, s) ELSE QuotedAt(toks, s)

\* import\s+(?:.*?\s+from\s+)?['\"]([^'\"]+)['\"] at position i (line 19); the
\* greedy \s+ gives blanks back one at a time until the rest matches
MatchImportAt(toks, i) ==
    IF toks[i] # "import" THEN NoMatch
    ELSE LET top == AfterSpaces(toks, i + 1)
             as == {s \in (i+2)..top : AfterImportAt(toks, s).ok}
         IN IF as = {} THEN NoMatch
            ELSE AfterImportAt(toks, CHOOSE s \in as : \A t \in as : s >= t)

\* require\(['\"]([^'\"]+)['\"]\) at position i (line 20)
MatchRequireAt(toks, i) ==
    IF toks[i] = "require" /\ i + 1 <= Len(toks) /\ toks[i+1] = "("
    THEN LET m == QuotedAt(toks, i + 2)
         IN IF m.ok /\ m.end + 1 <= Len(toks) /\ toks[m.end + 1] = ")"
            THEN [m EXCEPT !.end = m.end + 1]
            ELSE NoMatch
    ELSE NoMatch

\* from\s+['\"]([^'\"]+)['\"] at position i (line 21)
MatchFromAt(toks, i) ==
    IF toks[i] = "from" /\ AfterSpaces(toks, i + 1) > i + 1
    THEN QuotedAt(toks, AfterSpaces(toks, i + 1))
    ELSE NoMatch

\* the list import_patterns (lines 18-22)
ImportAndRequireOnly == <<"import", "require">>

ImportPatterns == <<"import", "require", "from">>

MatchAt(pattern, toks, i) ==
    CASE pattern = "import" -> MatchImportAt(toks, i)
      [] pattern = "require" -> MatchRequireAt(toks, i)
      [] pattern = "from" -> MatchFromAt(toks, i)

\* re.findall(pattern, content): the groups of the non-overlapping matches,
\* leftmost first
RECURSIVE FindAllFrom(_, _, _)
FindAllFrom(pattern, toks, i) ==
    IF i > Len(toks) THEN <<>>
    ELSE LET m == MatchAt(pattern, toks, i)
         IN IF m.ok THEN <<m.group>> \o FindAllFrom(pattern, toks, m.end + 1)
            ELSE FindAllFrom(pattern, toks, i + 1)

FindAll(pattern, toks) == FindAllFrom(pattern, toks, 1)

\* Input texts: up to MaxStatements statements, each on a line of its own.
MaxStatements == 2

EsImport(ref) == <<"import", SP, "x", SP, "from", SP, DQ, ref, DQ>>
RequireCall(ref) == <<"require", "(", SQ, ref, SQ, ")">>
BareImport(ref) == <<"import", SP, DQ, ref, DQ>>
ReExport(ref) == <<"export", SP, "x", SP, "from", SP, SQ, ref, SQ>>
MultiLineImport(ref) == <<"import", SP, "{", NL, "x", NL, "}", SP, "from", SP, DQ, ref, DQ>>
SpacedRequire(ref) == <<"require", SP, "(", DQ, ref, DQ, ")">>

Statements ==
    {EsImport("./a"), EsImport("pkg"), RequireCall("./b"), RequireCall("@/c"),
     BareImport("./a"), ReExport("./b"), MultiLineImport("./a"), SpacedRequire("./b")}

RECURSIVE JoinLines(_)
JoinLines(ls) ==
    IF ls = <<>> THEN <<>>
    ELSE IF Len(ls) = 1 THEN ls[1]
    ELSE ls[1] \o <<NL>> \o JoinLines(Tail(ls))

IsInputText(t) ==
    \E n \in 0..MaxStatements : \E ls \in [1..n -> Statements] : t = JoinLines(ls)

InitImports ==
    /\ pc = "open"
    /\ IdleCycles
    /\ IdleLinks
    /\ IdleScore
    /\ IdleBuild
    /\ file_readable \in BOOLEAN
    /\ IsInputText(file_text)
    /\ content = <<>>
    /\ imports = <<>>
    /\ pattern_idx = 1

\* lines 14-15: the file is opened and read
ReadFile ==
    /\ pc = "open"
    /\ file_readable
    /\ content' = file_text
    /\ pc' = "patterns"
    /\ UNCHANGED <<notImpVars, file_readable, file_text, imports, pattern_idx>>

\* lines 28-29: open() or read() raises, the exception is swallowed
ReadFails ==
    /\ pc = "open"
    /\ ~file_readable
    /\ pc' = "return"
    /\ UNCHANGED <<notImpVars, file_readable, file_text, content, imports, pattern_idx>>

\* lines 24-26: one pattern's matches are appended
ApplyPattern ==
    /\ pc = "patterns"
    /\ pattern_idx <= Len(ImportPatterns)
    /\ imports' = imports \o FindAll(ImportPatterns[pattern_idx], content)
    /\ pattern_idx' = pattern_idx + 1
    /\ UNCHANGED <<notImpVars, pc, file_readable, file_text, content>>

\* line 24: the patterns are exhausted
PatternsDone ==
    /\ pc = "patterns"
    /\ pattern_idx > Len(ImportPatterns)
    /\ pc' = "return"
    /\ UNCHANGED <<notImpVars, file_readable, file_text, content, imports, pattern_idx>>

\* line 31
ReturnImports ==
    /\ pc = "return"
    /\ pc' = "returned"
    /\ UNCHANGED <<notImpVars, file_readable, file_text, content, imports, pattern_idx>>

NextImports ==
    \/ ReadFile
    \/ ReadFails
    \/ ApplyPattern
    \/ PatternsDone
    \/ ReturnImports

SpecImports == InitImports /\ [][NextImports]_vars

(***************************************************************************)
(* Properties of analyze_imports                                           *)
(***************************************************************************)
\* the content of the scenario: `import x from "./a"` and `require('./b')`
ScenarioText == JoinLines(<<EsImport("./a"), RequireCall("./b")>>)

\* imp.startswith('.') (line 51 of build_dependency_graph): the tokens that
\* stand for a path beginning with a dot
IsRelative(ref) == ref # <<>> /\ ref[1] \in {"./a", "./b"}

\* C5 as stated: the scenario's content yields exactly the two references
\* ./a and ./b, one per import statement.
C5_OneReferencePerStatement ==
    (pc = "returned" /\ file_readable /\ file_text = ScenarioText) =>
        imports = << <<"./a">>, <<"./b">> >>

\* C5 amended: the scenario's content yields three references, ./a, ./b and
\* ./a again (the ES-module import is matched by the import pattern and by
\* the bare from pattern); the distinct references are ./a and ./b and all
\* are relative.
C5_EsImportCountedTwice ==
    (pc = "returned" /\ file_readable /\ file_text = ScenarioText) =>
        /\ imports = << <<"./a">>, <<"./b">>, <<"./a">> >>
        /\ Range(imports) = { <<"./a">>, <<"./b">> }
        /\ \A r \in Range(imports) : IsRelative(r)

\* the scenario's content has been read and all patterns applied
C5_Witness ==
    /\ pc = "returned"
    /\ file_readable
    /\ content = ScenarioText
    /\ pattern_idx > Len(ImportPatterns)
    /\ Len(imports) = 3

(***************************************************************************)
(* fix_broken_links.py: strings and paths                                  *)
(*                                                                         *)
(* A string (a link target, a file's content) is a sequence of tokens: a   *)
(* token is one of the characters the code tells apart ("[", "]", "(",     *)
(* ")", "/", "#"), a URL scheme, or a name that holds none of them. A path *)
(* (pathlib.Path) is the sequence of its parts, each part a string; the    *)
(* root part is <<"/">>.                                                   *)
(***************************************************************************)
RECURSIVE SplitOn(_, _)
\* str.split(sep): the pieces between the separators (always at least one)
SplitOn(str, sep) ==
    IF ~Contains(str, sep) THEN <<str>>
    ELSE <<SubSeq(str, 1, IndexOf(str, sep) - 1)>>
            \o SplitOn(SubSeq(str, IndexOf(str, sep) + 1, Len(str)), sep)

\* link_url.split('#')[0] (lines 77, 90)
StripFragment(link_url) == SplitOn(link_url, "#")[1]

\* anchor = '#' + link_url.split('#', 1)[1] when '#' in link_url (lines 216-218)
Anchor(link_url) ==
    IF Contains(link_url, "#")
    THEN SubSeq(link_url, IndexOf(link_url, "#"), Len(link_url))
    ELSE <<>>

RootPart == <<"/">>

\* the root part of a path string that starts with exactly two slashes,
\* which POSIX and pathlib keep apart from the root
DoubleRootPart == <<"/", "/">>

\* the string starts with exactly two slashes
StartsWithTwoSlashes(str) ==
    /\ Len(str) >= 2
    /\ str[1] = "/"
    /\ str[2] = "/"
    /\ (Len(str) >= 3 => str[3] # "/")

\* pathlib: the parts of a path string; empty and "." segments are dropped,
\* ".." is kept, a leading "/" gives the root part, exactly two leading
\* slashes the root part "//"
PathParts(str) ==
    LET segs == SplitOn(str, "/")
        kept == SelectSeq(segs, LAMBDA g : g # <<>> /\ g # <<".">>)
    IN IF StartsWithTwoSlashes(str) THEN <<DoubleRootPart>> \o kept
       ELSE IF str # <<>> /\ str[1] = "/" THEN <<RootPart>> \o kept
       ELSE kept

\* Path.name: the last part, '' for the root or for no part
PathName(parts) ==
    IF parts = <<>> \/ parts = <<RootPart>> \/ parts = <<DoubleRootPart>> THEN <<>>
    ELSE Last(parts)

\* Path.parent: the root is its own parent
Parent(parts) ==
    IF parts = <<RootPart>> \/ parts = <<DoubleRootPart>> THEN parts ELSE Front(parts)

RECURSIVE JoinParts(_)
\* str(path): the parts joined with "/"
JoinParts(parts) ==
    IF parts = <<>> THEN <<".">>
    ELSE IF Len(parts) = 1 THEN parts[1]
    ELSE IF parts[1] = RootPart THEN <<"/">> \o JoinParts(Tail(parts))
    ELSE IF parts[1] = DoubleRootPart THEN <<"/", "/">> \o JoinParts(Tail(parts))
    ELSE parts[1] \o <<"/">> \o JoinParts(Tail(parts))

\* source_dir / clean_url: an absolute right operand replaces the left one
JoinPath(dir, str) ==
    IF str # <<>> /\ str[1] = "/" THEN PathParts(str) ELSE dir \o PathParts(str)

\* the name a dangling symbolic link of the model points to, in the link's
\* own directory; no tree has an entry of this name
DanglingTarget == <<"no-such-target">>

RECURSIVE WalkOnTree(_, _, _)
\* Path.resolve() walks the path part by part: ".." removes the part before
\* it and stays at the root, the root "//" becomes "/", and a part that is
\* a symbolic link is replaced, wherever it stands in the path, by what it
\* points to; the parts after a missing target are kept as they are
WalkOnTree(t, parts, done) ==
    IF parts = <<>> THEN done
    ELSE IF Head(parts) = <<"..">>
         THEN WalkOnTree(t, Tail(parts), IF Len(done) > 1 THEN Front(done) ELSE done)
    ELSE IF Head(parts) = DoubleRootPart
         THEN WalkOnTree(t, Tail(parts), Append(done, RootPart))
    ELSE LET next == Append(done, Head(parts))
         IN IF next \in DOMAIN t /\ t[next].kind = "dangling"
            THEN WalkOnTree(t, Tail(parts), Append(done, DanglingTarget))
            ELSE WalkOnTree(t, Tail(parts), next)

\* Path.resolve() of a path none of whose parts is a symbolic link
ResolvePath(parts) == WalkOnTree([p \in {} |-> <<>>], parts, <<>>)

CommonPrefixLen(a, b) ==
    LET n == IF Len(a) < Len(b) THEN Len(a) ELSE Len(b)
        agree == {k \in 0..n : \A i \in 1..k : a[i] = b[i]}
    IN CHOOSE k \in agree : \A j \in agree : j <= k

\* the relative path from start to target, two normalised paths with the
\* same root
RelPathParts(target, start) ==
    LET c == CommonPrefixLen(target, start)
    IN [i \in 1..(Len(start) - c) |-> <<"..">>] \o SubSeq(target, c + 1, Len(target))

RECURSIVE NormParts(_, _)
\* os.path.normpath of an absolute path: ".." removes the component before
\* it and stays at the root; a root of exactly two slashes is kept
NormParts(parts, done) ==
    IF parts = <<>> THEN done
    ELSE IF Head(parts) = <<"..">>
         THEN NormParts(Tail(parts), IF Len(done) > 1 THEN Front(done) ELSE done)
    ELSE NormParts(Tail(parts), Append(done, Head(parts)))

\* os.path.abspath(path) in a process whose working directory is dir: a
\* path that is not absolute is joined to dir, then the path is normalised
AbsPath(path, dir) ==
    NormParts(IF path # <<>> /\ path[1] \in {RootPart, DoubleRootPart} THEN path
              ELSE dir \o path, <<>>)

\* abspath(p).split(sep) without its empty strings: the components after
\* the root, whichever root it is
Components(abs) == Tail(abs)

\* os.path.relpath(target, start) (line 107): both paths are made absolute
\* with the working directory of the process
RelPath(target, start, dir) ==
    RelPathParts(Components(AbsPath(target, dir)), Components(AbsPath(start, dir)))

\* os.path.relpath(target) with no start: the path relative to the working
\* directory of the process
RelativeToWorkingDir(source, target) == JoinParts(RelPath(target, <<>>, cwd))

\* calculate_relative_path(source, target) (lines 104-110)
CalculateRelativePath(source, target) == JoinParts(RelPath(target, Parent(source), cwd))

(***************************************************************************)
(* The tree on disk: a function from absolute paths to entries             *)
(*   [kind: "file" | "dangling", text: string, writable: BOOLEAN,          *)
(*    sound: BOOLEAN]                                                      *)
(* "dangling" is a symbolic link whose target is missing: a directory walk *)
(* lists it, exists() is false for it and reading it fails.                *)
(* A file that is not writable cannot be opened for writing. A file that   *)
(* is writable but not sound can be opened, which empties it, and then     *)
(* fails while the data is written (no space left, a size limit, an I/O    *)
(* error), leaving some part of the data behind.                           *)
(***************************************************************************)
IsFile(t, path) == path \in DOMAIN t /\ t[path].kind = "file"

IsDirectory(t, path) ==
    \E q \in DOMAIN t : Len(q) > Len(path) /\ SubSeq(q, 1, Len(path)) = path

\* Path.exists()
PathExists(t, path) == IsFile(t, path) \/ IsDirectory(t, path)

\* Path.resolve() on the tree (line 93)
ResolveOnTree(t, parts) == WalkOnTree(t, parts, <<>>)

\* resolve_link(source_file, link_url) (lines 84-96)
ResolveLink(t, source_file, link_url) ==
    LET clean_url == StripFragment(link_url)
        source_dir == Parent(source_file)
        target == ResolveOnTree(t, JoinPath(source_dir, clean_url))
    IN [exists |-> PathExists(t, target), path |-> target]

(***************************************************************************)
(* extract_markdown_links (lines 59-81)                                    *)
(***************************************************************************)
\* the position of the first token `t` at or after p (0 when there is none)
NextPos(str, t, p) ==
    IF \E k \in p..Len(str) : str[k] = t
    THEN CHOOSE k \in p..Len(str) : str[k] = t /\ \A j \in p..(k-1) : str[j] # t
    ELSE 0

\* \[([^\]]+)\]\(([^)]+)\) at position i: both classes stop at the first
\* character they exclude
MatchLinkAt(str, i) ==
    LET j == NextPos(str, "]", i + 1)
        k == IF j = 0 THEN 0 ELSE NextPos(str, ")", j + 2)
    IN IF /\ str[i] = "["
          /\ j > i + 1
          /\ j + 1 <= Len(str) /\ str[j + 1] = "("
          /\ k > j + 2
       THEN [ok |-> TRUE, full_match |-> SubSeq(str, i, k),
             link_text |-> SubSeq(str, i + 1, j - 1),
             link_url |-> SubSeq(str, j + 2, k - 1), end |-> k]
       ELSE [ok |-> FALSE, full_match |-> <<>>, link_text |-> <<>>,
             link_url |-> <<>>, end |-> 0]

\* the names of the model that hold ".md"
MdNames ==
    {"guide.md", "a.md", "b.md", "missing.md", "ref.md", "README.md", "link_repair_report.md"}

\* line 75: not link_url.startswith(('http://', 'https://')) and '.md' in link_url
IsInternalMarkdownLink(link_url) ==
    /\ link_url[1] \notin {"http://", "https://"}
    /\ \E k \in 1..Len(link_url) : link_url[k] \in MdNames

RECURSIVE ExtractFrom(_, _)
ExtractFrom(str, i) ==
    IF i > Len(str) THEN <<>>
    ELSE LET m == MatchLinkAt(str, i)
         IN IF ~m.ok THEN ExtractFrom(str, i + 1)
            ELSE (IF IsInternalMarkdownLink(m.link_url) /\ StripFragment(m.link_url) # <<>>
                  THEN <<[full_match |-> m.full_match, link_text |-> m.link_text,
                          link_url |-> m.link_url]>>
                  ELSE <<>>)
                 \o ExtractFrom(str, m.end + 1)

ExtractMarkdownLinks(str) == ExtractFrom(str, 1)

\* the position of the first occurrence of `sub` in `str` (0 when absent)
FindSub(str, sub) ==
    LET at == {p \in 1..(Len(str) - Len(sub) + 1) : SubSeq(str, p, p + Len(sub) - 1) = sub}
    IN IF at = {} THEN 0 ELSE CHOOSE p \in at : \A q \in at : p <= q

\* content.replace(old, new, 1) (line 227)
ReplaceFirst(str, old, new) ==
    LET p == FindSub(str, old)
    IN IF p = 0 THEN str
       ELSE SubSeq(str, 1, p - 1) \o new \o SubSeq(str, p + Len(old), Len(str))

(***************************************************************************)
(* build_file_cache, find_file_in_cache, find_correct_path                 *)
(***************************************************************************)
\* a path from the names of its parts
MkPath(names) == [i \in 1..Len(names) |-> <<names[i]>>]

\* BASE_DIR and DOCS_DIR (lines 22-23)
BASE_DIR == MkPath(<<"/", "Users", "mikeyoung", "CODING", "rebuild-6.0">>)
DOCS_DIR == BASE_DIR \o MkPath(<<"docs">>)

IsUnder(path, dir) == Len(path) > Len(dir) /\ SubSeq(path, 1, Len(dir)) = dir

\* part.startswith('.') for the names of the model
StartsWithDot(part) == part # <<>> /\ part[1] \in {".", "..", ".github"}

\* lines 48 and 277: "node_modules" in parts, or a part before the last one
\* starts with a dot
IsSkipped(path) ==
    \/ <<"node_modules">> \in Range(path)
    \/ \E i \in 1..(Len(path) - 1) : StartsWithDot(path[i])

\* a bug that indexes every file the walk lists
SkipsNothing(path) == FALSE

RECURSIVE BuildFileCacheTwice(_, _)
\* a bug that records every file twice
BuildFileCacheTwice(walked, cache) ==
    IF walked = <<>> THEN cache
    ELSE LET md_file == Head(walked)
             filename == PathName(md_file)
         IN BuildFileCacheTwice(Tail(walked),
              IF IsSkipped(md_file) THEN cache
              ELSE IF filename \in DOMAIN cache
                   THEN [cache EXCEPT ![filename] = @ \o <<md_file, md_file>>]
                   ELSE [n \in DOMAIN cache \cup {filename} |->
                            IF n = filename THEN <<md_file, md_file>> ELSE cache[n]])

\* lines 46-54: the entries of the walk whose name ends in .md, grouped by
\* file name in walk order
RECURSIVE BuildFileCacheFrom(_, _)
BuildFileCacheFrom(walked, cache) ==
    IF walked = <<>> THEN cache
    ELSE LET md_file == Head(walked)
             filename == PathName(md_file)
         IN BuildFileCacheFrom(Tail(walked),
              IF IsSkipped(md_file) THEN cache
              ELSE IF filename \in DOMAIN cache
                   THEN [cache EXCEPT ![filename] = Append(@, md_file)]
                   ELSE [n \in DOMAIN cache \cup {filename} |->
                            IF n = filename THEN <<md_file>> ELSE cache[n]])

EmptyCache == [n \in {} |-> <<>>]

\* a bug that falls back to the files of some other name when the name is
\* not in the index
FindAnyFile(cache, filename) ==
    IF filename \in DOMAIN cache THEN cache[filename]
    ELSE IF DOMAIN cache = {} THEN <<>>
    ELSE cache[CHOOSE n \in DOMAIN cache : TRUE]

\* find_file_in_cache(filename) (lines 99-101)
FindFileInCache(cache, filename) ==
    IF filename \in DOMAIN cache THEN cache[filename] ELSE <<>>

DirMatchScore == 2
DocsScore == 1
NonArchiveScore == 3
CategoryScore == 5
MinConfidence == 3

Categories == {"how-to", "reference", "explanation", "tutorials"}

InArchive(candidate) == <<"archive">> \in Range(candidate)

\* a bug that leaves out the preference of lines 149-150 for docs
ScoreWithoutDocs(original_parts, candidate) ==
    DirMatchScore * Cardinality({i \in 1..(Len(original_parts) - 1) :
                                    original_parts[i] \in Range(candidate)})
    + (IF <<"archive">> \in Range(candidate) THEN 0 ELSE NonArchiveScore)
    + CategoryScore * Cardinality({c \in Categories :
                                     /\ <<c>> \in Range(original_parts)
                                     /\ <<c>> \in Range(candidate)})

\* a bug that leaves out the bonus of line 154 for a candidate outside
\* every archive
ScoreWithoutArchiveBonus(original_parts, candidate) ==
    DirMatchScore * Cardinality({i \in 1..(Len(original_parts) - 1) :
                                    original_parts[i] \in Range(candidate)})
    + (IF <<"docs">> \in Range(candidate) THEN DocsScore ELSE 0)
    + CategoryScore * Cardinality({c \in Categories :
                                     /\ <<c>> \in Range(original_parts)
                                     /\ <<c>> \in Range(candidate)})

\* lines 140-164: the score of one candidate
ScoreOf(original_parts, candidate) ==
    LET dirs == {i \in 1..(Len(original_parts) - 1) : original_parts[i] \in Range(candidate)}
        both == {c \in Categories :
                    <<c>> \in Range(original_parts) /\ <<c>> \in Range(candidate)}
    IN DirMatchScore * Cardinality(dirs)
       + (IF <<"docs">> \in Range(candidate) THEN DocsScore ELSE 0)
       + (IF ~InArchive(candidate) THEN NonArchiveScore ELSE 0)
       + CategoryScore * Cardinality(both)

RECURSIVE BestOfLast(_, _, _)
\* a bug that lets a later candidate with an equal score replace the best one
BestOfLast(original_parts, candidates, best) ==
    IF candidates = <<>> THEN best
    ELSE LET score == ScoreOf(original_parts, Head(candidates))
         IN BestOfLast(original_parts, Tail(candidates),
                       IF score >= best.score /\ score > 0
                       THEN [match |-> Head(candidates), score |-> score]
                       ELSE best)

\* lines 136-168: the loop over the candidates; best is [match, score], with
\* match = <<>> for None
RECURSIVE BestOf(_, _, _)
BestOf(original_parts, candidates, best) ==
    IF candidates = <<>> THEN best
    ELSE LET score == ScoreOf(original_parts, Head(candidates))
         IN BestOf(original_parts, Tail(candidates),
                   IF score > best.score
                   THEN [match |-> Head(candidates), score |-> score]
                   ELSE best)

None == [is_none |-> TRUE, str |-> <<>>]
Str(str) == [is_none |-> FALSE, str |-> str]

\* the truth value of an Optional[str]
Truthy(v) == ~v.is_none /\ v.str # <<>>

\* a bug that applies the confidence floor to every lookup: a best score
\* below the floor gives no fix
RejectBelowFloor(cache, source_file, broken_link) ==
    LET candidates == FindFileInCache(cache, PathName(PathParts(broken_link)))
        best == BestOf(PathParts(broken_link), candidates, [match |-> <<>>, score |-> 0])
    IN IF best.match # <<>> /\ best.score >= MinConfidence
       THEN Str(CalculateRelativePath(source_file, best.match))
       ELSE None

\* find_correct_path(source_file, broken_link) (lines 113-179)
FindCorrectPath(cache, source_file, broken_link) ==
    LET filename == PathName(PathParts(broken_link))
        candidates == FindFileInCache(cache, filename)
        original_parts == PathParts(broken_link)
        best == BestOf(original_parts, candidates, [match |-> <<>>, score |-> 0])
        live == SelectSeq(candidates, LAMBDA c : ~InArchive(c))
    IN IF candidates = <<>> THEN None
       ELSE IF Len(candidates) = 1
            THEN Str(CalculateRelativePath(source_file, candidates[1]))
       ELSE IF best.match # <<>> /\ best.score >= MinConfidence
            THEN Str(CalculateRelativePath(source_file, best.match))
       ELSE IF live # <<>>
            THEN Str(CalculateRelativePath(source_file, live[1]))
       ELSE Str(CalculateRelativePath(source_file, candidates[1]))

(***************************************************************************)
(* The directory walk and the list of files to process                     *)
(***************************************************************************)
\* the names of the model in the order of Python's string comparison
NameOrder ==
    <<".github", "/", "CODING", "README.md", "Users", "a.md", "archive", "b.md", "docs",
      "guide.md", "how-to", "link_repair_report.md", "mikeyoung", "missing.md",
      "no-such-target", "old", "rebuild-6.0", "ref.md", "reference">>

\* the orders in which the operating system can list a set of directory
\* entries: every order
DirOrders(S) ==
    {w \in [1..Cardinality(S) -> S] : \A i, j \in 1..Cardinality(S) : w[i] = w[j] => i = j}

\* the glob patterns *.md and *.MD, for the names of the model
EndsWithMd(name) == Len(name) = 1 /\ name[1] \in MdNames

\* the entries of directory dir that the pattern matches
MatchesIn(t, dir) == {f \in DOMAIN t : Parent(f) = dir /\ EndsWithMd(PathName(f))}

\* the subdirectories of directory dir
SubDirsOf(t, dir) == {SubSeq(q, 1, Len(dir) + 1) : q \in {f \in DOMAIN t : IsUnder(Parent(f), dir)}}

RECURSIVE RGlob(_, _)
RECURSIVE RGlobEach(_, _)
\* dir.rglob("*.md") (line 46): the listings rglob can produce. The matching
\* entries of the directory come in the order the operating system lists
\* them, then the listing of each of its subdirectories, these too in the
\* order the operating system lists them
RGlob(t, dir) ==
    {here \o below : here \in DirOrders(MatchesIn(t, dir)),
                     below \in RGlobEach(t, SubDirsOf(t, dir))}

\* the listings of a set of directories, one directory after the other, in
\* every order of the directories
RGlobEach(t, subs) ==
    IF subs = {} THEN {<<>>}
    ELSE UNION {{first \o rest : first \in RGlob(t, d), rest \in RGlobEach(t, subs \ {d})} :
                   d \in subs}

\* Path.__lt__: the parts are compared one by one as strings
PathLess(p, q) ==
    LET c == CommonPrefixLen(p, q)
    IN IF c = Len(p) THEN c < Len(q)
       ELSE IF c = Len(q) THEN FALSE
       ELSE IndexOf(NameOrder, p[c + 1][1]) < IndexOf(NameOrder, q[c + 1][1])

RECURSIVE SortPaths(_)
\* list.sort() of a list of distinct paths
SortPaths(S) ==
    IF S = {} THEN <<>>
    ELSE LET least == CHOOSE x \in S : \A y \in S \ {x} : PathLess(x, y)
         IN <<least>> \o SortPaths(S \ {least})

\* lines 270-278: the markdown files below DOCS_DIR (rglob) and directly
\* in BASE_DIR (glob), as a set, without the skipped ones, sorted; the order
\* of the listings is lost in the set
MdFiles(t) ==
    LET found == {f \in DOMAIN t :
                    /\ IsUnder(f, DOCS_DIR) \/ Parent(f) = BASE_DIR
                    /\ EndsWithMd(PathName(f))}
    IN SortPaths({f \in found : ~IsSkipped(f)})

(***************************************************************************)
(* The trees and contents the pass is run on                               *)
(***************************************************************************)
MaxLinks == 2

\* f"[{link_text}]({new_link})" (line 221)
NewFullMatch(link_text, new_link) == <<"[">> \o link_text \o <<"]", "(">> \o new_link \o <<")">>

\* the pieces a file's content is made of: links to an indexed name, to an
\* unknown name, with a fragment, to a file that exists, a web link whose
\* address holds the text of a markdown link, and a link to a file that
\* exists whose fragment holds the text of a markdown link
LinkPieces ==
    { NewFullMatch(<<"t">>, <<"guide.md">>),
      NewFullMatch(<<"t">>, <<"missing.md">>),
      NewFullMatch(<<"t">>, <<"guide.md", "#", "sec">>),
      NewFullMatch(<<"t">>, <<"b.md">>),
      NewFullMatch(<<"r">>, <<"ref.md">>),
      <<"[", "x", "]", "(", "http://", "e.com", "/">> \o NewFullMatch(<<"t">>, <<"guide.md">>),
      <<"[", "x", "]", "(", "b.md", "#">> \o NewFullMatch(<<"t">>, <<"guide.md">>) }

RECURSIVE JoinPieces(_)
JoinPieces(ps) ==
    IF ps = <<>> THEN <<>>
    ELSE IF Len(ps) = 1 THEN ps[1]
    ELSE ps[1] \o <<" and ">> \o JoinPieces(Tail(ps))

RegularFile(text, writable) ==
    [kind |-> "file", text |-> text, writable |-> writable, sound |-> TRUE]

\* a file that opens for writing and then fails while the data is written
FailingFile(text) ==
    [kind |-> "file", text |-> text, writable |-> TRUE, sound |-> FALSE]

DanglingLink == [kind |-> "dangling", text |-> <<>>, writable |-> FALSE, sound |-> TRUE]

DocsFile(names) == DOCS_DIR \o MkPath(names)

\* report_path = BASE_DIR / args.report with the default name (lines 394, 409)
ReportPath == BASE_DIR \o MkPath(<<"link_repair_report.md">>)

\* a tree from a set of <<path, entry>> pairs
MkTree(entries) ==
    [p \in {e[1] : e \in entries} |-> (CHOOSE e \in entries : e[1] = p)[2]]

\* docs/a.md and docs/b.md hold links; docs/how-to/guide.md is absent, a
\* file or a dangling symbolic link; docs/archive/guide.md is absent or a
\* file; docs/reference/ref.md and the hidden docs/.github/guide.md are files.
\* Where docs/a.md cannot be written, so that the next run finds its links
\* as they were, a report of an earlier run is absent or a file
IsInputTree(t) ==
    \E a_write \in {"ok", "denied", "io_error"},
       b_text \in {<<>>, NewFullMatch(<<"t">>, <<"guide.md">>)},
       how_to \in {"absent", "file", "dangling"},
       archive \in {"absent", "file"} :
       \E earlier \in (IF a_write = "denied" THEN {"absent", "file"} ELSE {"absent"}) :
       \E n \in 0..MaxLinks : \E ps \in [1..n -> LinkPieces] :
          t = MkTree(
                { <<DocsFile(<<"a.md">>),
                    IF a_write = "io_error" THEN FailingFile(JoinPieces(ps))
                    ELSE RegularFile(JoinPieces(ps), a_write = "ok")>>,
                  <<DocsFile(<<"b.md">>), RegularFile(b_text, TRUE)>>,
                  <<DocsFile(<<"reference", "ref.md">>), RegularFile(<<"hi">>, TRUE)>>,
                  <<DocsFile(<<".github", "guide.md">>), RegularFile(<<"hi">>, TRUE)>> }
                \cup (IF how_to = "file"
                      THEN {<<DocsFile(<<"how-to", "guide.md">>), RegularFile(<<"hi">>, TRUE)>>}
                      ELSE IF how_to = "dangling"
                      THEN {<<DocsFile(<<"how-to", "guide.md">>), DanglingLink>>}
                      ELSE {})
                \cup (IF archive = "file"
                      THEN {<<DocsFile(<<"archive", "guide.md">>), RegularFile(<<"hi">>, TRUE)>>}
                      ELSE {})
                \cup (IF earlier = "file"
                      THEN {<<ReportPath, RegularFile(<<"hi">>, TRUE)>>}
                      ELSE {}))

(***************************************************************************)
(* build_file_cache, process_all_files and fix_links_in_file as a state    *)
(* machine. A run is build_file_cache followed by process_all_files; the   *)
(* second run is a new process over the tree the first one left behind.    *)
(***************************************************************************)
\* lines 26-33
ZeroStats ==
    [total_files_scanned |-> 0, total_links_found |-> 0, broken_links_found |-> 0,
     links_fixed |-> 0, links_unfixable |-> 0, files_modified |-> 0]

\* lines 187-193
NewFileStats ==
    [links_found |-> 0, broken_links |-> 0, fixed_links |-> 0, unfixable_links |-> 0,
     fixes |-> <<>>]

\* defaultdict(int) (line 36)
NoCounts == [k \in {} |-> 0]

\* fixes_by_pattern[pattern_key] += 1 (line 237)
CountOne(counts, key) ==
    [k \in DOMAIN counts \cup {key} |->
        (IF k \in DOMAIN counts THEN counts[k] ELSE 0) + (IF k = key THEN 1 ELSE 0)]

InitLinks ==
    /\ pc = "build"
    /\ IdleCycles
    /\ IdleImports
    /\ IdleScore
    /\ IdleBuild
    /\ IsInputTree(tree)
    /\ tree_before = tree
    /\ walk = <<>>
    /\ dry_run \in BOOLEAN
    /\ run = "first"
    /\ cwd = BASE_DIR
    /\ file_cache = EmptyCache
    /\ stats = ZeroStats
    /\ fixes_by_pattern = NoCounts
    /\ unfixable_links = <<>>
    /\ md_files = <<>>
    /\ file_idx = 1
    /\ modified_files = <<>>
    /\ original_content = <<>>
    /\ links = <<>>
    /\ link_idx = 1
    /\ file_stats = NewFileStats
    /\ lookups = <<>>

\* build_file_cache (lines 43-56), over any listing rglob can produce
BuildFileCache ==
    /\ pc = "build"
    /\ file_cache' \in {BuildFileCacheFrom(listing, file_cache) :
                           listing \in RGlob(tree, BASE_DIR)}
    /\ pc' = "list"
    /\ UNCHANGED <<notLnkVars, lookups, content, tree, tree_before, walk, dry_run, cwd, run, stats,
                   fixes_by_pattern, unfixable_links, md_files, file_idx, modified_files,
                   original_content, links, link_idx, file_stats>>

\* process_all_files up to its loop (lines 269-283)
ListFiles ==
    /\ pc = "list"
    /\ md_files' = MdFiles(tree)
    /\ stats' = [stats EXCEPT !.total_files_scanned = Len(MdFiles(tree))]
    /\ modified_files' = <<>>
    /\ file_idx' = 1
    /\ pc' = "file"
    /\ UNCHANGED <<notLnkVars, lookups, content, tree, tree_before, walk, dry_run, cwd, run, file_cache,
                   fixes_by_pattern, unfixable_links, original_content, links, link_idx,
                   file_stats>>

\* md_file of the loop in process_all_files, file_path in fix_links_in_file
FilePath == md_files[file_idx]

\* file_path.relative_to(BASE_DIR) as a string (lines 241, 248, 286, 299)
RelativeTo(path, base) == JoinParts(SubSeq(path, Len(base) + 1, Len(path)))

\* lines 291-302: the caller adds the file's numbers to the totals and goes
\* on to the next file
FileDone(fs) ==
    /\ stats' = [stats EXCEPT
                    !.total_links_found = @ + fs.links_found,
                    !.broken_links_found = @ + fs.broken_links,
                    !.links_fixed = @ + fs.fixed_links,
                    !.links_unfixable = @ + fs.unfixable_links,
                    !.files_modified = @ + (IF fs.fixed_links > 0 THEN 1 ELSE 0)]
    /\ modified_files' =
          IF fs.fixed_links > 0
          THEN Append(modified_files,
                      [file |-> RelativeTo(FilePath, BASE_DIR), fixes |-> fs.fixes,
                       count |-> fs.fixed_links])
          ELSE modified_files
    /\ file_idx' = file_idx + 1
    /\ pc' = "file"

\* lines 187-203: the file is read and its links are extracted
ReadText ==
    /\ pc = "file"
    /\ file_idx <= Len(md_files)
    /\ IsFile(tree, FilePath)
    /\ content' = tree[FilePath].text
    /\ original_content' = tree[FilePath].text
    /\ links' = ExtractMarkdownLinks(tree[FilePath].text)
    /\ file_stats' = [NewFileStats EXCEPT
                         !.links_found = Len(ExtractMarkdownLinks(tree[FilePath].text))]
    /\ link_idx' = 1
    /\ pc' = "links"
    /\ UNCHANGED <<notLnkVars, lookups, tree, tree_before, walk, dry_run, cwd, run, file_cache, stats,
                   fixes_by_pattern, unfixable_links, md_files, file_idx, modified_files>>

\* lines 198-200: reading raises, the empty file_stats is returned
ReadTextFails ==
    /\ pc = "file"
    /\ file_idx <= Len(md_files)
    /\ ~IsFile(tree, FilePath)
    /\ file_stats' = NewFileStats
    /\ FileDone(NewFileStats)
    /\ UNCHANGED <<notLnkVars, lookups, content, tree, tree_before, walk, dry_run, cwd, run, file_cache,
                   fixes_by_pattern, unfixable_links, md_files, original_content, links,
                   link_idx>>

\* the link of the current iteration (line 205)
Link == links[link_idx]

\* line 206-208
LinkIsBroken == ~ResolveLink(tree, FilePath, Link.link_url).exists

\* line 212
CorrectedLink == FindCorrectPath(file_cache, FilePath, Link.link_url)

\* the call of line 212 as the history keeps it: the arguments, the index
\* at the time of the call and the value returned
LookupRecord ==
    [source_file |-> FilePath, broken_link |-> Link.link_url, index |-> file_cache,
     cwd |-> cwd, result |-> CorrectedLink]

\* line 214
HasCorrection == Truthy(CorrectedLink) /\ CorrectedLink.str # Link.link_url

\* lines 216-220
NewLink == CorrectedLink.str \o Anchor(Link.link_url)

\* a bug that substitutes without the check
FixUnverified(t, file_path, new_link) == TRUE

\* lines 224-226: the replacement must resolve to something that exists
FixVerified(t, file_path, new_link) == ResolveLink(t, file_path, new_link).exists

\* line 236
PatternKey(link_url, new_link) ==
    PathName(PathParts(link_url)) \o <<" -> ">> \o PathName(PathParts(new_link))

\* a bug that records a rejected replacement like a link without candidates
RecordWithoutAttempt(file_path, link_url, new_link) ==
    [file |-> RelativeTo(file_path, BASE_DIR), link |-> link_url,
     reason |-> "No candidates found in file cache"]

\* lines 240-244
AttemptRecord(file_path, link_url, new_link) ==
    [file |-> RelativeTo(file_path, BASE_DIR), link |-> link_url, attempted_fix |-> new_link]

\* lines 247-251
NoCandidatesRecord(file_path, link_url) ==
    [file |-> RelativeTo(file_path, BASE_DIR), link |-> link_url,
     reason |-> "No candidates found in file cache"]

\* lines 205-208: the link resolves, nothing is done
LinkExists ==
    /\ pc = "links"
    /\ link_idx <= Len(links)
    /\ ~LinkIsBroken
    /\ link_idx' = link_idx + 1
    /\ UNCHANGED <<notLnkVars, lookups, pc, content, tree, tree_before, walk, dry_run, cwd, run,
                   file_cache, stats, fixes_by_pattern, unfixable_links, md_files, file_idx,
                   modified_files, original_content, links, file_stats>>

\* lines 209-237: a broken link with a replacement that resolves
LinkFixed ==
    /\ pc = "links"
    /\ link_idx <= Len(links)
    /\ LinkIsBroken
    /\ HasCorrection
    /\ FixVerified(tree, FilePath, NewLink)
    /\ content' = ReplaceFirst(content, Link.full_match,
                               NewFullMatch(Link.link_text, NewLink))
    /\ file_stats' = [file_stats EXCEPT
                         !.broken_links = @ + 1,
                         !.fixed_links = @ + 1,
                         !.fixes = Append(@, [old |-> Link.link_url, new |-> NewLink,
                                              text |-> Link.link_text])]
    /\ fixes_by_pattern' = CountOne(fixes_by_pattern, PatternKey(Link.link_url, NewLink))
    /\ link_idx' = link_idx + 1
    /\ lookups' = Append(lookups, LookupRecord)
    /\ UNCHANGED <<notLnkVars, pc, tree, tree_before, walk, dry_run, cwd, run, file_cache, stats,
                   unfixable_links, md_files, file_idx, modified_files, original_content,
                   links>>

\* lines 209-226, 238-244: the replacement does not resolve
LinkFixRejected ==
    /\ pc = "links"
    /\ link_idx <= Len(links)
    /\ LinkIsBroken
    /\ HasCorrection
    /\ ~FixVerified(tree, FilePath, NewLink)
    /\ file_stats' = [file_stats EXCEPT !.broken_links = @ + 1, !.unfixable_links = @ + 1]
    /\ unfixable_links' = Append(unfixable_links,
                                 AttemptRecord(FilePath, Link.link_url, NewLink))
    /\ link_idx' = link_idx + 1
    /\ lookups' = Append(lookups, LookupRecord)
    /\ UNCHANGED <<notLnkVars, pc, content, tree, tree_before, walk, dry_run, cwd, run,
                   file_cache, stats, fixes_by_pattern, md_files, file_idx, modified_files,
                   original_content, links>>

\* lines 209-214, 245-251: no replacement, or the replacement is the link itself
LinkNoFix ==
    /\ pc = "links"
    /\ link_idx <= Len(links)
    /\ LinkIsBroken
    /\ ~HasCorrection
    /\ file_stats' = [file_stats EXCEPT !.broken_links = @ + 1, !.unfixable_links = @ + 1]
    /\ unfixable_links' = Append(unfixable_links,
                                 NoCandidatesRecord(FilePath, Link.link_url))
    /\ link_idx' = link_idx + 1
    /\ lookups' = Append(lookups, LookupRecord)
    /\ UNCHANGED <<notLnkVars, pc, content, tree, tree_before, walk, dry_run, cwd, run,
                   file_cache, stats, fixes_by_pattern, md_files, file_idx, modified_files,
                   original_content, links>>

\* a bug that writes in a dry run too
WriteAlways == content # original_content

\* line 254
MustWrite == ~dry_run /\ content # original_content

\* lines 254-257: the changed content is written
WriteFile ==
    /\ pc = "links"
    /\ link_idx > Len(links)
    /\ MustWrite
    /\ tree[FilePath].writable
    /\ tree[FilePath].sound
    /\ tree' = [tree EXCEPT ![FilePath].text = content]
    /\ FileDone(file_stats)
    /\ UNCHANGED <<notLnkVars, lookups, content, tree_before, walk, dry_run, cwd, run, file_cache,
                   fixes_by_pattern, unfixable_links, md_files, original_content, links,
                   link_idx, file_stats>>

\* lines 258-260: opening the file for writing raises, the exception is
\* swallowed
WriteFails ==
    /\ pc = "links"
    /\ link_idx > Len(links)
    /\ MustWrite
    /\ ~tree[FilePath].writable
    /\ FileDone(file_stats)
    /\ UNCHANGED <<notLnkVars, lookups, content, tree, tree_before, walk, dry_run, cwd, run, file_cache,
                   fixes_by_pattern, unfixable_links, md_files, original_content, links,
                   link_idx, file_stats>>

\* the strings that are a token of the model cut short: its first
\* characters, at least one and not all (a token of one character has none)
ProperPrefixes(token) ==
    CASE token = ".github" -> {".", ".g", ".gi", ".git", ".gith", ".githu"}
      [] token = "CODING" -> {"C", "CO", "COD", "CODI", "CODIN"}
      [] token = "README.md" ->
           {"R", "RE", "REA", "READ", "READM", "README", "README.", "README.m"}
      [] token = "Users" -> {"U", "Us", "Use", "User"}
      [] token = "a.md" -> {"a", "a.", "a.m"}
      [] token = "archive" -> {"a", "ar", "arc", "arch", "archi", "archiv"}
      [] token = "b.md" -> {"b", "b.", "b.m"}
      [] token = "docs" -> {"d", "do", "doc"}
      [] token = "guide.md" -> {"g", "gu", "gui", "guid", "guide", "guide.", "guide.m"}
      [] token = "how-to" -> {"h", "ho", "how", "how-", "how-t"}
      [] token = "link_repair_report.md" ->
           {"l", "li", "lin", "link", "link_", "link_r", "link_re", "link_rep", "link_repa",
            "link_repai", "link_repair", "link_repair_", "link_repair_r", "link_repair_re",
            "link_repair_rep", "link_repair_repo", "link_repair_repor", "link_repair_report",
            "link_repair_report.", "link_repair_report.m"}
      [] token = "mikeyoung" ->
           {"m", "mi", "mik", "mike", "mikey", "mikeyo", "mikeyou", "mikeyoun"}
      [] token = "missing.md" ->
           {"m", "mi", "mis", "miss", "missi", "missin", "missing", "missing.", "missing.m"}
      [] token = "no-such-target" ->
           {"n", "no", "no-", "no-s", "no-su", "no-suc", "no-such", "no-such-", "no-such-t",
            "no-such-ta", "no-such-tar", "no-such-targ", "no-such-targe"}
      [] token = "old" -> {"o", "ol"}
      [] token = "rebuild-6.0" ->
           {"r", "re", "reb", "rebu", "rebui", "rebuil", "rebuild", "rebuild-", "rebuild-6",
            "rebuild-6."}
      [] token = "ref.md" -> {"r", "re", "ref", "ref.", "ref.m"}
      [] token = "reference" ->
           {"r", "re", "ref", "refe", "refer", "refere", "referen", "referenc"}
      [] token = " and " -> {" ", " a", " an", " and"}
      [] token = "sec" -> {"s", "se"}
      [] token = "http://" -> {"h", "ht", "htt", "http", "http:", "http:/"}
      [] token = "https://" -> {"h", "ht", "htt", "http", "https", "https:", "https:/"}
      [] token = "e.com" -> {"e", "e.", "e.c", "e.co"}
      [] token = "hi" -> {"h"}
      [] token = ".." -> {"."}
      [] OTHER -> {}

\* what a write that fails after the open can leave in the file: the first
\* characters of the data, fewer than all of them, so some of its tokens
\* and possibly the first characters of the next one
BrokenWrites(data) ==
    UNION {{SubSeq(data, 1, n)} \cup {Append(SubSeq(data, 1, n), p) : p \in ProperPrefixes(data[n + 1])} :
             n \in 0..(Len(data) - 1)}

\* lines 256, 258-260: write_text opens the file with mode "w", which empties
\* it, and raises while the data is written; the exception is swallowed and
\* the file is left with the part of the data that was written
WriteBreaks ==
    /\ pc = "links"
    /\ link_idx > Len(links)
    /\ MustWrite
    /\ tree[FilePath].writable
    /\ ~tree[FilePath].sound
    /\ \E left \in BrokenWrites(content) :
          tree' = [tree EXCEPT ![FilePath].text = left]
    /\ FileDone(file_stats)
    /\ UNCHANGED <<notLnkVars, lookups, content, tree_before, walk, dry_run, cwd, run, file_cache,
                   fixes_by_pattern, unfixable_links, md_files, original_content, links,
                   link_idx, file_stats>>

\* line 262: a dry run, or nothing changed
NoWrite ==
    /\ pc = "links"
    /\ link_idx > Len(links)
    /\ ~MustWrite
    /\ FileDone(file_stats)
    /\ UNCHANGED <<notLnkVars, lookups, content, tree, tree_before, walk, dry_run, cwd, run, file_cache,
                   fixes_by_pattern, unfixable_links, md_files, original_content, links,
                   link_idx, file_stats>>

\* lines 304-305: the loop is over, modified_files is returned
EndPass ==
    /\ pc = "file"
    /\ file_idx > Len(md_files)
    /\ pc' = "passed"
    /\ UNCHANGED <<notLnkVars, content, lnkVars>>

\* the script is run again after main has ended: a new process, started in
\* another directory, with the module's initial values (lines 26-40) over
\* the tree as it is now, the report of the first run included
StartSecondRun ==
    /\ pc = "reported"
    /\ run = "first"
    /\ run' = "second"
    /\ cwd' = DOCS_DIR
    /\ tree_before' = tree
    /\ file_cache' = EmptyCache
    /\ stats' = ZeroStats
    /\ fixes_by_pattern' = NoCounts
    /\ unfixable_links' = <<>>
    /\ md_files' = <<>>
    /\ file_idx' = 1
    /\ modified_files' = <<>>
    /\ content' = <<>>
    /\ original_content' = <<>>
    /\ links' = <<>>
    /\ link_idx' = 1
    /\ file_stats' = NewFileStats
    /\ pc' = "build"
    /\ UNCHANGED <<notLnkVars, lookups, tree, walk, dry_run>>

(***************************************************************************)
(* generate_report (lines 308-385): the report is a list of lines, written *)
(* joined by newlines to BASE_DIR/link_repair_report.md                    *)
(***************************************************************************)
\* the grave accent, which a string of this language cannot hold
BT == "<grave>"

\* the arrow between the old and the new target of a fix (line 351)
ARROW == "<arrow>"

RECURSIVE InsertByCount(_, _)
\* one step of a stable sort by `count`, largest first
InsertByCount(sorted, r) ==
    IF sorted = <<>> THEN <<r>>
    ELSE IF Head(sorted).count >= r.count
         THEN <<Head(sorted)>> \o InsertByCount(Tail(sorted), r)
         ELSE <<r>> \o sorted

RECURSIVE SortByCount(_, _)
\* sorted(..., key=count, reverse=True) (lines 336, 346)
SortByCount(rs, sorted) ==
    IF rs = <<>> THEN sorted ELSE SortByCount(Tail(rs), InsertByCount(sorted, Head(rs)))

RECURSIVE FlattenSeq(_)
FlattenSeq(ss) == IF ss = <<>> THEN <<>> ELSE Head(ss) \o FlattenSeq(Tail(ss))

RECURSIVE DistinctIn(_, _)
\* the elements of a list in the order of their first occurrence
DistinctIn(xs, seen) ==
    IF xs = <<>> THEN seen
    ELSE DistinctIn(Tail(xs), IF Contains(seen, Head(xs)) THEN seen ELSE Append(seen, Head(xs)))

\* fixes_by_pattern.items(): the keys in the order they were first counted,
\* which is the order of the fixes of the files in modified_files
PatternItems(counts, modified) ==
    LET fixes == FlattenSeq([i \in 1..Len(modified) |-> modified[i].fixes])
        keys == DistinctIn([i \in 1..Len(fixes) |-> PatternKey(fixes[i].old, fixes[i].new)], <<>>)
    IN [i \in 1..Len(keys) |-> [key |-> keys[i], count |-> counts[keys[i]]]]

(***************************************************************************)
(* The fix rate (lines 328-330) is computed in binary floating point: the  *)
(* quotient is rounded to 53 significant bits, its product with 100 is     *)
(* rounded again, and the format rounds the exact value of that number to  *)
(* one decimal, a tie to the even digit. A number is [bits, scale]: the    *)
(* integer whose binary digits are bits, most significant first, times     *)
(* 2^scale.                                                                *)
(***************************************************************************)
\* the significant bits of a Python float
MantissaBits == 53

RECURSIVE BitsOf(_)
\* the binary digits of a natural number, none for 0
BitsOf(n) == IF n = 0 THEN <<>> ELSE Append(BitsOf(n \div 2), n % 2)

RECURSIVE BitsToInt(_)
BitsToInt(bits) == IF bits = <<>> THEN 0 ELSE 2 * BitsToInt(Front(bits)) + Last(bits)

RECURSIVE FractionBits(_, _, _)
\* the first k binary digits of r / b after the point, for r < b
FractionBits(r, b, k) ==
    IF k = 0 THEN <<>>
    ELSE LET d == IF 2 * r >= b THEN 1 ELSE 0
         IN <<d>> \o FractionBits(2 * r - d * b, b, k - 1)

RECURSIVE RemainderAfter(_, _, _)
\* what is left of r / b after its first k binary digits, times b
RemainderAfter(r, b, k) ==
    IF k = 0 THEN r
    ELSE RemainderAfter(2 * r - (IF 2 * r >= b THEN b ELSE 0), b, k - 1)

RECURSIVE LeadingZeros(_, _)
\* the zeros after the point before the first 1 of r / b, for 0 < r < b
LeadingZeros(r, b) == IF 2 * r >= b THEN 0 ELSE 1 + LeadingZeros(2 * r, b)

RECURSIVE Increment(_)
\* the binary digits of the number plus one
Increment(bits) ==
    IF bits = <<>> THEN <<1>>
    ELSE IF Last(bits) = 0 THEN Append(Front(bits), 1)
    ELSE Append(Increment(Front(bits)), 0)

\* the number rounded up to the next one of MantissaBits bits
RoundedUp(bits, scale) ==
    LET up == Increment(bits)
    IN IF Len(up) > MantissaBits
       THEN [bits |-> Front(up), scale |-> scale + 1]
       ELSE [bits |-> up, scale |-> scale]

\* fixed / broken (line 329), for fixed > 0: the quotient rounded to the
\* nearest float, a tie to the even one
FloatDivide(fixed, broken) ==
    LET whole == BitsOf(fixed \div broken)
        r == fixed % broken
        k == IF whole # <<>> THEN MantissaBits - Len(whole)
             ELSE LeadingZeros(r, broken) + MantissaBits
        all == whole \o FractionBits(r, broken, k)
        bits == SubSeq(all, Len(all) - MantissaBits + 1, Len(all))
        left == 2 * RemainderAfter(r, broken, k)
    IN IF left > broken \/ (left = broken /\ Last(bits) = 1)
       THEN RoundedUp(bits, 0 - k)
       ELSE [bits |-> bits, scale |-> 0 - k]

RECURSIVE TimesSmall(_, _, _)
\* the binary digits of the number times a small factor, plus a carry
TimesSmall(bits, factor, carry) ==
    IF bits = <<>> \/ carry < 0 THEN BitsOf(carry)
    ELSE Append(TimesSmall(Front(bits), factor, (Last(bits) * factor + carry) \div 2),
                (Last(bits) * factor + carry) % 2)

\* x * 100 (line 329): the product rounded to the nearest float, a tie to
\* the even one
FloatTimesHundred(x) ==
    LET product == TimesSmall(x.bits, 100, 0)
        bits == SubSeq(product, 1, MantissaBits)
        dropped == SubSeq(product, MantissaBits + 1, Len(product))
        more == \E i \in 2..Len(dropped) : dropped[i] = 1
        scale == x.scale + Len(dropped)
    IN IF dropped # <<>> /\ dropped[1] = 1 /\ (more \/ Last(bits) = 1)
       THEN RoundedUp(bits, scale)
       ELSE [bits |-> bits, scale |-> scale]

\* f"{x:.1f}" (line 330) for a float below 2^52: the tenths of the decimal
\* that is nearest to the exact value of x, a tie to the even digit
FormatTenths(x) ==
    LET times_ten == TimesSmall(x.bits, 10, 0)
        n == 0 - x.scale
        padded == IF n > Len(times_ten)
                  THEN [i \in 1..(n - Len(times_ten)) |-> 0] \o times_ten
                  ELSE times_ten
        whole == BitsToInt(SubSeq(padded, 1, Len(padded) - n))
        fraction == SubSeq(padded, Len(padded) - n + 1, Len(padded))
        more == \E i \in 2..Len(fraction) : fraction[i] = 1
    IN IF fraction[1] = 1 /\ (more \/ whole % 2 = 1) THEN whole + 1 ELSE whole

\* f"{fix_rate:.1f}" (lines 328-330): the rate in tenths of a percent
FixRateTenths(fixed, broken) ==
    IF fixed = 0 THEN 0
    ELSE FormatTenths(FloatTimesHundred(FloatDivide(fixed, broken)))

\* lines 341-355: the section of one modified file
ModifiedSection(file_info) ==
    << <<"### ">> \o file_info.file, <<"**Fixes:** ", ToString(file_info.count)>>, <<>> >>
    \o [i \in 1..(IF Len(file_info.fixes) < 10 THEN Len(file_info.fixes) ELSE 10) |->
           <<"- ", BT>> \o file_info.fixes[i].old \o <<BT, " ", ARROW, " ", BT>> \o file_info.fixes[i].new \o <<BT>>]
    \o (IF Len(file_info.fixes) > 10
        THEN << <<"- ... and ", ToString(Len(file_info.fixes) - 10), " more">> >>
        ELSE <<>>)
    \o << <<>> >>

\* lines 373-377: the lines of one unfixable link
UnfixableLines(item) ==
    << <<"- ", BT>> \o item.link \o <<BT>> >>
    \o (IF "reason" \in DOMAIN item
        THEN << <<"  - Reason: ", item.reason>> >>
        ELSE << <<"  - Attempted: ", BT>> \o item.attempted_fix
                   \o <<BT, " ", "(", "still broken", ")">> >>)

\* lines 366-378: the unfixable links grouped by file, files in sorted order
UnfixableSections(items) ==
    LET file_paths == SortPaths({PathParts(items[i].file) : i \in 1..Len(items)})
    IN FlattenSeq([k \in 1..Len(file_paths) |->
          << <<"### ">> \o JoinParts(file_paths[k]) >>
          \o FlattenSeq([i \in 1..Len(items) |->
                IF PathParts(items[i].file) = file_paths[k] THEN UnfixableLines(items[i]) ELSE <<>>])
          \o << <<>> >>])

\* the lines of the report (lines 310-381); the date is the output of the
\* date command
ReportLines(st, counts, modified, unfixable) ==
    LET patterns == SortByCount(PatternItems(counts, modified), <<>>)
        by_count == SortByCount(modified, <<>>)
        tenths == FixRateTenths(st.links_fixed, st.broken_links_found)
    IN << <<"# Link Repair Report - Phase 3">>, <<>>, <<"**Date:** ", "date">>,
          <<"**Agent:** Link Repair Agent">>, <<>>, <<"## Executive Summary">>, <<>>,
          <<"- **Files Scanned:** ", ToString(st.total_files_scanned)>>,
          <<"- **Total Links Found:** ", ToString(st.total_links_found)>>,
          <<"- **Broken Links Found:** ", ToString(st.broken_links_found)>>,
          <<"- **Links Fixed:** ", ToString(st.links_fixed)>>,
          <<"- **Links Unfixable:** ", ToString(st.links_unfixable)>>,
          <<"- **Files Modified:** ", ToString(st.files_modified)>>, <<>> >>
       \o (IF st.broken_links_found > 0
           THEN << <<"**Fix Rate:** ", ToString(tenths \div 10), ".", ToString(tenths % 10), "%">>,
                   <<"**Remaining Broken Links:** ",
                     ToString(st.broken_links_found - st.links_fixed)>> >>
           ELSE <<>>)
       \o << <<>>, <<"## Top Fix Patterns">>, <<>> >>
       \o [i \in 1..(IF Len(patterns) < 20 THEN Len(patterns) ELSE 20) |->
              <<"- **", ToString(patterns[i].count), "x** ">> \o patterns[i].key]
       \o << <<>>, <<"## Files Modified">>, <<>>,
             <<"Total: ", ToString(Len(modified)), " files">>, <<>> >>
       \o FlattenSeq([i \in 1..(IF Len(by_count) < 50 THEN Len(by_count) ELSE 50) |->
                         ModifiedSection(by_count[i])])
       \o (IF Len(modified) > 50
           THEN << <<NL, "... and ", ToString(Len(modified) - 50), " more files", NL>> >>
           ELSE <<>>)
       \o << <<"## Unfixable Links">>, <<>>, <<"Total: ", ToString(Len(unfixable))>>, <<>> >>
       \o UnfixableSections(SubSeq(unfixable, 1, IF Len(unfixable) < 100 THEN Len(unfixable) ELSE 100))
       \o (IF Len(unfixable) > 100
           THEN << <<NL, "... and ", ToString(Len(unfixable) - 100), " more unfixable links", NL>> >>
           ELSE <<>>)

\* '\n'.join(report) (line 384)
ReportText(report) == JoinLines(report)

\* main after process_all_files (lines 408-410) and generate_report (lines
\* 308-385): the report is written; this ends the run of main
GenerateReport ==
    /\ pc = "passed"
    /\ tree' = [f \in DOMAIN tree \cup {ReportPath} |->
                   IF f = ReportPath
                   THEN RegularFile(ReportText(ReportLines(stats, fixes_by_pattern,
                                                           modified_files, unfixable_links)),
                                    TRUE)
                   ELSE tree[f]]
    /\ pc' = "reported"
    /\ UNCHANGED <<notLnkVars, lookups, content, tree_before, walk, dry_run, cwd, run, file_cache,
                   stats, fixes_by_pattern, unfixable_links, md_files, file_idx,
                   modified_files, original_content, links, link_idx, file_stats>>

NextLinks ==
    \/ BuildFileCache
    \/ ListFiles
    \/ ReadText
    \/ ReadTextFails
    \/ LinkExists
    \/ LinkFixed
    \/ LinkFixRejected
    \/ LinkNoFix
    \/ WriteFile
    \/ WriteFails
    \/ WriteBreaks
    \/ NoWrite
    \/ EndPass
    \/ GenerateReport
    \/ StartSecondRun

SpecLinks == InitLinks /\ [][NextLinks]_vars

(***************************************************************************)
(* find_correct_path as a function of the index, the source file and the   *)
(* broken link: one call on an index built from a listing of candidates.   *)
(***************************************************************************)
MaxCandidates == 3

CandidatePaths ==
    { DocsFile(<<"how-to", "guide.md">>),
      DocsFile(<<"archive", "guide.md">>),
      DocsFile(<<"archive", "old", "guide.md">>),
      DocsFile(<<"guide.md">>),
      DocsFile(<<"reference", "ref.md">>),
      BASE_DIR \o MkPath(<<"archive", "old", "guide.md">>),
      BASE_DIR \o MkPath(<<"how-to", "guide.md">>),
      BASE_DIR \o MkPath(<<"old", "guide.md">>),
      BASE_DIR \o MkPath(<<"client", "docs", "guide.md">>),
      BASE_DIR \o MkPath(<<"client", "docs", "how-to", "guide.md">>),
      BASE_DIR \o MkPath(<<"client", "docs", "archive", "old", "guide.md">>) }

LookupLinks ==
    { <<"guide.md">>,
      <<"..", "/", "old", "/", "guide.md">>,
      <<"how-to", "/", "guide.md">>,
      <<"archive", "/", "guide.md">>,
      <<"reference", "/", "guide.md">>,
      <<"guide.md", "#", "sec">>,
      <<"/", "guide.md">>,
      <<"/", "/", "guide.md">>,
      <<"ref.md">>,
      <<"missing.md">> }

\* the directories a lone call is made from
WorkingDirs == {BASE_DIR, DOCS_DIR}

LookupSources ==
    { DocsFile(<<"a.md">>), DocsFile(<<"how-to", "b.md">>), BASE_DIR \o MkPath(<<"README.md">>) }

\* an order in which rglob can list files: no file twice, the files of a
\* directory before those of its subdirectories, each directory in one go
IsListing(w) ==
    /\ \A i, j \in 1..Len(w) : i < j =>
          /\ w[i] # w[j]
          /\ ~IsUnder(Parent(w[i]), Parent(w[j]))
    /\ \A i, j, k \in 1..Len(w) : (i < j /\ j < k) =>
          CommonPrefixLen(Parent(w[i]), Parent(w[k]))
             <= CommonPrefixLen(Parent(w[i]), Parent(w[j]))

InitScore ==
    /\ pc = "lookup"
    /\ IdleCycles
    /\ IdleImports
    /\ IdlePass
    /\ IdleBuild
    /\ cwd \in WorkingDirs
    /\ \E n \in 0..MaxCandidates : \E w \in [1..n -> CandidatePaths] :
          /\ IsListing(w)
          /\ walk = w
    /\ file_cache = BuildFileCacheFrom(walk, EmptyCache)
    /\ lookup_source \in LookupSources
    /\ lookup_link \in LookupLinks
    /\ lookup_result = None

\* find_correct_path(source_file, broken_link) is called (lines 113-179)
CallFindCorrectPath ==
    /\ pc = "lookup"
    /\ lookup_result' = FindCorrectPath(file_cache, lookup_source, lookup_link)
    /\ pc' = "looked_up"
    /\ UNCHANGED <<cycVars, impVars, lnkVars, bldVars, lookup_source, lookup_link>>

NextScore == CallFindCorrectPath

SpecScore == InitScore /\ [][NextScore]_vars

(***************************************************************************)
(* build_dependency_graph (lines 33-68), followed by                       *)
(* find_circular_dependencies on the graph it returns (main, lines 176 and *)
(* 191). The strings of this program are sequences of tokens, as for the   *)
(* link repair: "/" and "." and ".." and "@" are tokens of their own, a    *)
(* file or directory name is one token.                                    *)
(***************************************************************************)
\* base_dir / "client" (lines 169, 176)
ROOT_DIR == BASE_DIR \o MkPath(<<"client">>)

\* the extensions of the call of line 176
Extensions == <<".ts", ".tsx">>

\* the file names of the model that the pattern *<ext> matches (line 39)
NamesMatching(ext) ==
    IF ext = ".ts" THEN {"a.ts", "b.ts", "b.test.ts"}
    ELSE IF ext = ".tsx" THEN {"c.tsx"}
    ELSE {}

\* line 42: the markers of test files and installed packages; of the names
\* of the model these hold one of the four substrings
IsTestOrInstalled(path) ==
    \E i \in 1..Len(path) : path[i][1] \in {"node_modules", "__tests__", "b.test.ts"}

\* the orders in which a directory walk can list a set of paths
ListingsOf(S) ==
    {w \in [1..Cardinality(S) -> S] : \A i, j \in 1..Cardinality(S) : w[i] = w[j] => i = j}

\* lines 38-39: one rglob per extension, in the order of the extensions
RGlobExtensions(src) ==
    {ts \o tsx :
        ts \in ListingsOf({f \in DOMAIN src : f[Len(f)][1] \in NamesMatching(Extensions[1])}),
        tsx \in ListingsOf({f \in DOMAIN src : f[Len(f)][1] \in NamesMatching(Extensions[2])})}

\* analyze_imports(file_path) as a function of the file (lines 10-31)
AnalyzeImports(entry) ==
    IF entry.readable
    THEN FlattenSeq([i \in 1..Len(ImportPatterns) |-> FindAll(ImportPatterns[i], entry.text)])
    ELSE <<>>

RECURSIVE ReplaceAlias(_)
\* imp.replace('@/', 'src/') (line 61): every occurrence is replaced
ReplaceAlias(imp) ==
    IF Len(imp) < 2 THEN imp
    ELSE IF imp[1] = "@" /\ imp[2] = "/"
         THEN <<"src", "/">> \o ReplaceAlias(SubSeq(imp, 3, Len(imp)))
         ELSE <<imp[1]>> \o ReplaceAlias(Tail(imp))

\* lines 50-65: the resolved form of one import, as a list of no or one
\* string (a relative import that leaves root_dir is dropped)
ResolveImport(file_path, imp) ==
    IF StartsWithDot(imp)
    THEN LET resolved == ResolvePath(JoinPath(Parent(file_path), imp))
         IN IF resolved = ROOT_DIR \/ IsUnder(resolved, ROOT_DIR)
            THEN <<RelativeTo(resolved, ROOT_DIR)>>
            ELSE <<>>
    ELSE IF Len(imp) >= 2 /\ imp[1] = "@" /\ imp[2] = "/"
    THEN <<ReplaceAlias(imp)>>
    ELSE <<<<"external:">> \o imp>>

\* lines 48-65: the edge list of a file
ResolvedImports(file_path, entry) ==
    LET found == AnalyzeImports(entry)
    IN FlattenSeq([i \in 1..Len(found) |-> ResolveImport(file_path, found[i])])

\* graph[rel_path] = resolved_imports (line 67): a new key goes to the end
\* of the dict's order, an old one keeps its place
SetItem(g, key, value) ==
    [keys |-> IF Contains(g.keys, key) THEN g.keys ELSE Append(g.keys, key),
     adj |-> [k \in DOMAIN g.adj \cup {key} |-> IF k = key THEN value ELSE g.adj[k]]]

\* Input trees: client/src/a.ts holds up to MaxImports imports, b.ts one
\* import of a or none, c.tsx (when there) imports itself, b.test.ts (when
\* there) imports a
MaxImports == 2

ImportFrom(ref) == <<"import", SP, "x", SP, "from", SP, SQ>> \o ref \o <<SQ>>
RequireOf(ref) == <<"require", "(", SQ>> \o ref \o <<SQ, ")">>
SideEffectImport(ref) == <<"import", SP, SQ>> \o ref \o <<SQ>>

RefsOfA ==
    { <<".", "/", "b">>, <<".", "/", "b.ts">>, <<"@", "/", "b.ts">>, <<"react">>,
      <<"..", "/", "..", "/", "out">> }

TextsOfB ==
    { <<>>, ImportFrom(<<".", "/", "a">>), ImportFrom(<<".", "/", "a.ts">>),
      RequireOf(<<".", "/", "a.ts">>) }

SrcFile(name) == ROOT_DIR \o MkPath(<<"src", name>>)

SourceFile(readable, text) == [readable |-> readable, text |-> text]

IsInputSources(src) ==
    \E a_readable \in BOOLEAN, b_text \in TextsOfB, with_c \in BOOLEAN, with_test \in BOOLEAN :
       \E n \in 0..MaxImports :
          \E st \in [1..n -> {ImportFrom(r) : r \in RefsOfA} \cup {RequireOf(r) : r \in RefsOfA}] :
             src = MkTree(
                     { <<SrcFile("a.ts"), SourceFile(a_readable, JoinLines(st))>>,
                       <<SrcFile("b.ts"), SourceFile(TRUE, b_text)>> }
                     \cup (IF with_c
                           THEN {<<SrcFile("c.tsx"),
                                   SourceFile(TRUE, SideEffectImport(<<".", "/", "c.tsx">>))>>}
                           ELSE {})
                     \cup (IF with_test
                           THEN {<<SrcFile("b.test.ts"),
                                   SourceFile(TRUE, ImportFrom(<<".", "/", "a.ts">>))>>}
                           ELSE {}))

InitGraph ==
    /\ pc = "rglob"
    /\ IdleCycles
    /\ IdleImports
    /\ IdleLinks
    /\ IdleScore
    /\ IsInputSources(sources)
    /\ files = <<>>
    /\ file_pos = 1

\* lines 35-42: the files are listed and the test files filtered out
ListSourceFiles ==
    /\ pc = "rglob"
    /\ \E listed \in RGlobExtensions(sources) :
          files' = SelectSeq(listed, LAMBDA f : ~IsTestOrInstalled(f))
    /\ pc' = "files"
    /\ UNCHANGED <<cycVars, impVars, lnkVars, scoVars, sources, file_pos>>

\* lines 44-67: one file's imports are extracted and resolved, and its edge
\* list is put into the graph under its path relative to root_dir
AddFileToGraph ==
    /\ pc = "files"
    /\ file_pos <= Len(files)
    /\ graph' = SetItem(graph, RelativeTo(files[file_pos], ROOT_DIR),
                        ResolvedImports(files[file_pos], sources[files[file_pos]]))
    /\ file_pos' = file_pos + 1
    /\ UNCHANGED <<pc, visited, rec_stack, circulars, unique_circulars, stack, root_idx, frames,
                   impVars, lnkVars, scoVars, sources, files>>

\* line 68 and main (line 191): the graph is returned and handed to
\* find_circular_dependencies
ReturnGraph ==
    /\ pc = "files"
    /\ file_pos > Len(files)
    /\ pc' = "roots"
    /\ UNCHANGED <<cycVars, impVars, lnkVars, scoVars, bldVars>>

NextGraph ==
    \/ ListSourceFiles
    \/ AddFileToGraph
    \/ ReturnGraph
    \/ CallRoot
    \/ SkipRoot
    \/ EdgeRecurse
    \/ EdgeCycle
    \/ EdgeSkip
    \/ Return
    \/ Finish

SpecGraph == InitGraph /\ [][NextGraph]_vars

(***************************************************************************)
(* Any one of the programs                                                 *)
(***************************************************************************)
Init == InitCycles \/ InitImports \/ InitLinks \/ InitScore \/ InitGraph

Next == NextCycles \/ NextImports \/ NextLinks \/ NextScore \/ NextGraph

Spec == Init /\ [][Next]_vars

(***************************************************************************)
(* Properties of the link repair                                           *)
(***************************************************************************)
\* a link of the current file is being processed
AtLink == pc = "links" /\ link_idx <= Len(links)

\* the path of a file from the `file` field of a record
PathOfRecord(r) == BASE_DIR \o PathParts(r.file)

\* C6: after a repair pass without dry run, a second repair pass over the
\* same tree, with the file index rebuilt, modifies no file: at every moment
\* of the second pass the tree is the tree the first pass left behind.
C6_SecondPassModifiesNoFile ==
    (run = "second" /\ ~dry_run /\ pc # "reported") => tree = tree_before

\* C7: every link target that is substituted into a file's content passed,
\* before the substitution, the existence check that flagged the original
\* target as broken: whenever a link's step changes the content, the
\* original target failed resolve_link, the new target passes it, and the
\* change is the substitution of that new target.
C7_SubstitutedTargetPassedCheck ==
    [][(AtLink /\ content' # content) =>
          /\ ~ResolveLink(tree, FilePath, Link.link_url).exists
          /\ ResolveLink(tree, FilePath, NewLink).exists
          /\ PathExists(tree, ResolvePath(JoinPath(Parent(FilePath), StripFragment(NewLink))))
          /\ content' = ReplaceFirst(content, Link.full_match,
                                     NewFullMatch(Link.link_text, NewLink))]_vars

\* a substitution has been made in the file being processed, in a tree
\* where some indexed candidate does not exist
C7_Witness ==
    /\ pc = "links"
    /\ content # original_content
    /\ file_stats.fixed_links > 0
    /\ \E f \in DOMAIN tree : tree[f].kind = "dangling"

\* a step of process_all_files writes one of the scanned files (the report,
\* which a second run has scanned, is rewritten by generate_report after
\* the pass: that step of main is not one of the pass)
WritesScannedFile == pc # "passed" /\ \E f \in Range(md_files) : tree'[f] # tree[f]

\* the step of a broken link whose chosen replacement fails re-validation
RejectedStep ==
    /\ AtLink
    /\ LinkIsBroken
    /\ HasCorrection
    /\ ~ResolveLink(tree, FilePath, NewLink).exists

\* the replacement is not substituted and the link is recorded as
\* unfixable together with the attempted replacement
RejectedNotSubstituted ==
    RejectedStep =>
        /\ content' = content
        /\ tree' = tree
        /\ file_stats'.fixes = file_stats.fixes
        /\ unfixable_links' =
              Append(unfixable_links,
                     [file |-> RelativeTo(FilePath, BASE_DIR), link |-> Link.link_url,
                      attempted_fix |-> NewLink])

\* C8 as stated: for every broken link whose chosen replacement fails
\* re-validation, the replacement is not written, the link is recorded as
\* unfixable with the attempted replacement, and the file is left untouched
\* (its content on disk stays what it was when the run started).
C8_RejectedFixLeavesFileUntouched ==
    /\ [][RejectedNotSubstituted]_vars
    /\ [](\A i \in 1..Len(unfixable_links) :
             "attempted_fix" \in DOMAIN unfixable_links[i] =>
                 tree[PathOfRecord(unfixable_links[i])]
                    = tree_before[PathOfRecord(unfixable_links[i])])

\* C8 amended: the rejected replacement is not substituted, the link is
\* recorded as unfixable with the attempted replacement, and the step leaves
\* content and disk as they are; the file is written only when another of
\* its links was fixed (and the run is not a dry run).
C8_RejectedFixNotSubstituted ==
    [][/\ RejectedNotSubstituted
       /\ WritesScannedFile => (pc = "links" /\ file_stats.fixed_links > 0 /\ ~dry_run)]_vars

\* a file with a rejected replacement has been written, because another of
\* its links was fixed
C8_Witness ==
    \E i \in 1..Len(unfixable_links) :
        /\ "attempted_fix" \in DOMAIN unfixable_links[i]
        /\ tree[PathOfRecord(unfixable_links[i])] # tree_before[PathOfRecord(unfixable_links[i])]

\* the index has no entry for the bare file name of link i of the file
NoIndexEntry(i) == PathName(PathParts(links[i].link_url)) \notin DOMAIN file_cache

\* C9: a broken link whose bare file name has no entry in the index gets
\* exactly one unfixable record, with the reason "no candidates", and
\* nothing is changed for it; a file whose broken links all have no entry
\* in the index is not written.
C9_NoCandidatesRecordedNotWritten ==
    [][/\ (AtLink /\ LinkIsBroken /\ NoIndexEntry(link_idx)) =>
             /\ content' = content
             /\ tree' = tree
             /\ unfixable_links' =
                   Append(unfixable_links,
                          [file |-> RelativeTo(FilePath, BASE_DIR), link |-> Link.link_url,
                           reason |-> "No candidates found in file cache"])
       /\ WritesScannedFile =>
             \E i \in 1..Len(links) :
                 /\ ~ResolveLink(tree, FilePath, links[i].link_url).exists
                 /\ ~NoIndexEntry(i)]_vars

\* a file with two broken links, neither with an entry in the index, has
\* been processed: two records with the reason, and the file is as it was
C9_Witness ==
    /\ pc = "links"
    /\ link_idx > Len(links)
    /\ Len(links) = 2
    /\ \A i \in 1..Len(links) :
          ~ResolveLink(tree, FilePath, links[i].link_url).exists /\ NoIndexEntry(i)
    /\ file_stats.unfixable_links = 2
    /\ Len(unfixable_links) >= 2
    /\ "reason" \in DOMAIN unfixable_links[Len(unfixable_links)]
    /\ content = original_content

\* C10: when the index holds exactly one path for the broken target's bare
\* file name, find_correct_path returns that path relative to the source
\* file's directory, whatever its score.
C10_SingleCandidateAlwaysChosen ==
    LET candidates == FindFileInCache(file_cache, PathName(PathParts(lookup_link)))
    IN (pc = "looked_up" /\ Len(candidates) = 1) =>
          lookup_result = Str(JoinParts(RelPathParts(candidates[1], Parent(lookup_source))))

\* the only candidate is archival, outside the documentation root and
\* scores below the confidence floor, and it has been returned
C10_Witness ==
    LET candidates == FindFileInCache(file_cache, PathName(PathParts(lookup_link)))
    IN /\ pc = "looked_up"
       /\ Len(candidates) = 1
       /\ InArchive(candidates[1])
       /\ ScoreOf(PathParts(lookup_link), candidates[1]) < MinConfidence
       /\ ~lookup_result.is_none

(***************************************************************************)
(* Properties of find_correct_path                                         *)
(***************************************************************************)
\* the candidates of the looked-up link, in index order
LookupCandidates == FindFileInCache(file_cache, PathName(PathParts(lookup_link)))

\* the value find_correct_path returns when it settles on candidate c
Chosen(c) == Str(JoinParts(RelPathParts(c, Parent(lookup_source))))

\* the candidate lies under archive/old/
UnderArchiveOld(c) ==
    Len(c) >= 3 /\ c[Len(c) - 2] = <<"archive">> /\ c[Len(c) - 1] = <<"old">>

\* the candidate lies under how-to/ and under no archival directory
UnderHowTo(c) == Len(c) >= 2 /\ c[Len(c) - 1] = <<"how-to">> /\ ~InArchive(c)

\* 'docs' in candidate_parts (line 149)
HasDocsPart(c) == <<"docs">> \in Range(c)

\* the scenario of C11: ../old/guide.md has been looked up in an index with
\* exactly two candidates, one under archive/old/ and one under how-to/
ArchiveAndHowTo ==
    /\ pc = "looked_up"
    /\ lookup_link = <<"..", "/", "old", "/", "guide.md">>
    /\ Len(LookupCandidates) = 2
    /\ \E i, j \in 1..2 : UnderArchiveOld(LookupCandidates[i]) /\ UnderHowTo(LookupCandidates[j])

\* the how-to candidate and the archive/old candidate of the scenario
HowToCandidate == LookupCandidates[CHOOSE j \in 1..2 : UnderHowTo(LookupCandidates[j])]

ArchiveCandidate == LookupCandidates[CHOOSE i \in 1..2 : UnderArchiveOld(LookupCandidates[i])]

\* the archive candidate comes first and has a part named docs, the how-to
\* candidate has none: both score 3
ArchiveTiesFirst ==
    /\ UnderArchiveOld(LookupCandidates[1])
    /\ HasDocsPart(ArchiveCandidate)
    /\ ~HasDocsPart(HowToCandidate)

SameCall(a, b) ==
    /\ a.source_file = b.source_file
    /\ a.broken_link = b.broken_link
    /\ a.index = b.index

\* C12: find_correct_path is deterministic: two calls with the same source
\* file, the same broken target and the same index content return the same
\* result, whatever else differs between them: the links fixed and files
\* written since, the run they belong to, and the working directory of
\* the process, which os.path.relpath reads.
C12_SameCallSameResult ==
    \A i, j \in 1..Len(lookups) :
        SameCall(lookups[i], lookups[j]) => lookups[i].result = lookups[j].result

\* the same call on docs/a.md, with a replacement as its result, was made in
\* the first run and again in the second, which works from another
\* directory, on the same index, after the first run has rewritten docs/b.md
C12_Witness ==
    /\ run = "second"
    /\ tree[DocsFile(<<"b.md">>)].text = NewFullMatch(<<"t">>, <<"how-to", "/", "guide.md">>)
    /\ \E i, j \in 1..Len(lookups) :
          /\ i < j
          /\ SameCall(lookups[i], lookups[j])
          /\ lookups[i].cwd # lookups[j].cwd
          /\ ~lookups[i].result.is_none
          /\ lookups[i].source_file = DocsFile(<<"a.md">>)

\* every indexed path appears once in the index, under its own bare file name
IndexWellFormed ==
    \A n \in DOMAIN file_cache :
        \A i \in 1..Len(file_cache[n]) :
            /\ PathName(file_cache[n][i]) = n
            /\ \A j \in 1..Len(file_cache[n]) : file_cache[n][i] = file_cache[n][j] => i = j

\* the index holds every markdown file that was in the tree when the run
\* started and is not skipped
IndexComplete ==
    \A f \in DOMAIN tree_before :
        (EndsWithMd(PathName(f)) /\ ~IsSkipped(f)) =>
            /\ PathName(f) \in DOMAIN file_cache
            /\ Contains(file_cache[PathName(f)], f)

\* C13: in a run of main the index is built exactly once (the only step
\* that changes it turns the empty index of a new process into the built
\* one), it is complete before the first lookup, no later step (lookup,
\* scoring, file write, report) changes it, and every indexed path appears
\* once, under its own bare file name.
C13_IndexBuiltOnceThenFrozen ==
    /\ [][/\ file_cache' # file_cache =>
                \/ pc = "build" /\ pc' = "list" /\ file_cache = EmptyCache
                \/ pc = "reported" /\ pc' = "build" /\ run = "first" /\ run' = "second"
                      /\ file_cache' = EmptyCache
          /\ (AtLink /\ LinkIsBroken) =>
                /\ IndexComplete
                /\ \E listing \in RGlob(tree_before, BASE_DIR) :
                      file_cache = BuildFileCacheFrom(listing, EmptyCache)]_vars
    /\ [](IndexWellFormed /\ (pc \notin {"build"} => IndexComplete))

\* a run of main is over: links were looked up, a file was rewritten, the
\* report was written, and the index still holds its two guide.md paths
C13_Witness ==
    /\ pc = "reported"
    /\ lookups # <<>>
    /\ tree[DocsFile(<<"a.md">>)] # tree_before[DocsFile(<<"a.md">>)]
    /\ ReportPath \in DOMAIN tree
    /\ Len(FindFileInCache(file_cache, <<"guide.md">>)) = 2

(***************************************************************************)
(* A write that fails                                                      *)
(***************************************************************************)
\* fix_links_in_file is at its write (line 256) and write_text raises
WriteRaises ==
    /\ pc = "links"
    /\ link_idx > Len(links)
    /\ MustWrite
    /\ ~(tree[FilePath].writable /\ tree[FilePath].sound)

\* C14: when writing a modified file fails, the failure is caught, the
\* file on disk keeps its pre-write content, and process_all_files goes on
\* with the next file; the pass ends only after its last file.
C14_FailedWriteKeepsFile ==
    /\ [][WriteRaises =>
            /\ tree' = tree
            /\ pc' = "file"
            /\ file_idx' = file_idx + 1]_vars
    /\ [](pc = "passed" => file_idx = Len(md_files) + 1)

(***************************************************************************)
(* A dry run                                                               *)
(***************************************************************************)
\* the fix of the link at hand, as line 227 records it
FixAtHand == [old |-> Link.link_url, new |-> NewLink, text |-> Link.link_text]

\* C15: with dry_run set, process_all_files changes the on-disk content of
\* no scanned markdown file (the tree stays as it was until main writes its
\* report, and the report is the only file that differs afterwards), while
\* every broken link with a verified replacement is still fixed in the
\* content held in memory and recorded in the fixes of the file, which
\* reach modified_files.
C15_DryRunComputesWithoutWriting ==
    /\ [](dry_run =>
            /\ (pc # "reported" => tree = tree_before)
            /\ \A p \in DOMAIN tree_before :
                  p # ReportPath => p \in DOMAIN tree /\ tree[p] = tree_before[p])
    /\ [][/\ (dry_run /\ AtLink /\ LinkIsBroken /\ HasCorrection
                    /\ FixVerified(tree, FilePath, NewLink)) =>
                  /\ content' = ReplaceFirst(content, Link.full_match,
                                             NewFullMatch(Link.link_text, NewLink))
                  /\ file_stats'.fixes = Append(file_stats.fixes, FixAtHand)
                  /\ file_stats'.fixed_links = file_stats.fixed_links + 1
          /\ (dry_run /\ pc = "links" /\ link_idx > Len(links)
                    /\ file_stats.fixed_links > 0) =>
                  /\ modified_files' =
                        Append(modified_files,
                               [file |-> RelativeTo(FilePath, BASE_DIR),
                                fixes |-> file_stats.fixes,
                                count |-> file_stats.fixed_links])
                  /\ stats'.links_fixed = stats.links_fixed + file_stats.fixed_links]_vars

\* a dry pass is over: two files had fixes computed, and docs/a.md, whose
\* content in memory was changed, is on disk as before
C15_Witness ==
    /\ dry_run
    /\ pc = "passed"
    /\ Len(modified_files) = 2
    /\ stats.links_fixed >= 2
    /\ tree = tree_before

(***************************************************************************)
(* Termination and coverage of find_circular_dependencies                  *)
(***************************************************************************)
\* a call of dfs begins: a frame is pushed
EntersNode == Len(stack') > Len(stack)

\* dfs is entered only for a node that was not visited before, and only a
\* call of dfs marks a node visited
EntersUnvisitedOnly ==
    /\ [][EntersNode =>
            /\ Len(stack') = Len(stack) + 1
            /\ stack'[Len(stack')].node \notin visited
            /\ visited' = visited \cup {stack'[Len(stack')].node}]_vars
    /\ [][visited' # visited => EntersNode]_vars

\* when the function has returned, the visited nodes are the keys of the
\* graph and the nodes reachable from a key
VisitedAllAtReturn ==
    pc = "done" =>
        visited = Range(graph.keys)
                    \cup UNION {ReachFrom(graph, k) : k \in Range(graph.keys)}

RefSegments(broken_link) == Front(PathParts(broken_link))

\* the candidate lies under an archival directory
RefArchival(c) == \E i \in 1..(Len(c) - 1) : c[i] = <<"archive">>

\* the score of candidate c, given whether c counts as lying under the
\* documentation root
RefScore(broken_link, c, in_docs) ==
    LET segs == RefSegments(broken_link)
    IN 2 * Cardinality({i \in 1..Len(segs) : \E j \in 1..Len(c) : c[j] = segs[i]})
       + (IF in_docs THEN 1 ELSE 0)
       + (IF RefArchival(c) THEN 0 ELSE 3)
       + 5 * Cardinality({k \in {"how-to", "reference", "explanation", "tutorials"} :
                            /\ \E i \in 1..Len(PathParts(broken_link)) :
                                  PathParts(broken_link)[i] = <<k>>
                            /\ \E j \in 1..Len(c) : c[j] = <<k>>})

\* the choice of the policy from the scores of the candidates: the first
\* candidate with the highest score if that score is at least 3, otherwise
\* the first non-archival candidate, otherwise the first candidate
RefChoice(candidates, scores) ==
    LET top == CHOOSE i \in 1..Len(candidates) :
                  /\ \A j \in 1..Len(candidates) : scores[j] <= scores[i]
                  /\ \A j \in 1..(i - 1) : scores[j] < scores[i]
    IN IF scores[top] >= 3 THEN candidates[top]
       ELSE IF \E i \in 1..Len(candidates) : ~RefArchival(candidates[i])
       THEN candidates[CHOOSE i \in 1..Len(candidates) :
                          /\ ~RefArchival(candidates[i])
                          /\ \A j \in 1..(i - 1) : RefArchival(candidates[j])]
       ELSE candidates[1]

\* the policy with +1 for a candidate under the documentation root DOCS_DIR
RefChoiceUnderDocsRoot ==
    RefChoice(LookupCandidates,
              [i \in 1..Len(LookupCandidates) |->
                  RefScore(lookup_link, LookupCandidates[i],
                           IsUnder(LookupCandidates[i], DOCS_DIR))])

\* the policy with +1 for a candidate whose path has a part named docs
RefChoiceDocsPart ==
    RefChoice(LookupCandidates,
              [i \in 1..Len(LookupCandidates) |->
                  RefScore(lookup_link, LookupCandidates[i],
                           \E j \in 1..Len(LookupCandidates[i]) :
                               LookupCandidates[i][j] = <<"docs">>)])

\* find_correct_path has returned for a link with two or more candidates
LookedUpSeveral == pc = "looked_up" /\ Len(LookupCandidates) >= 2

\* C17 as stated: for two or more candidates find_correct_path returns the
\* candidate of the reference policy, which gives +2 per directory segment
\* of the broken target found in the candidate path, +1 to a candidate under
\* the documentation root, +3 to a candidate under no archival directory
\* and +5 per category name present in both, takes the first candidate with
\* the highest score if that score is at least 3, otherwise the first
\* non-archival candidate, otherwise the first candidate.
C17_ChoiceEqualsReferencePolicy ==
    LookedUpSeveral => lookup_result = Chosen(RefChoiceUnderDocsRoot)

\* C17 amended: the same, with the +1 given to every candidate whose path
\* has a part named docs, whether or not it lies under the documentation
\* root.
C17_ChoiceEqualsPolicyWithDocsPart ==
    LookedUpSeveral => lookup_result = Chosen(RefChoiceDocsPart)

\* three candidates were scored, the first one with the highest score is
\* not the first candidate, and it was chosen
C17_Witness ==
    /\ LookedUpSeveral
    /\ Len(LookupCandidates) = 3
    /\ RefChoiceDocsPart # LookupCandidates[1]
    /\ lookup_result = Chosen(RefChoiceDocsPart)

(***************************************************************************)
(* Links with a fragment                                                   *)
(***************************************************************************)
\* the bare file name of a link target, its #fragment excluded
BareName(link_url) == PathName(PathParts(StripFragment(link_url)))

\* the broken link at hand has a fragment, and the index holds files of its
\* bare name, all of which exist
BrokenFragmentLinkWithCandidates ==
    /\ AtLink
    /\ LinkIsBroken
    /\ Contains(Link.link_url, "#")
    /\ FindFileInCache(file_cache, BareName(Link.link_url)) # <<>>
    /\ \A c \in Range(FindFileInCache(file_cache, BareName(Link.link_url))) : IsFile(tree, c)

\* C18: a broken link whose target carries a #fragment is looked up by its
\* bare file name, the fragment excluded; when the index holds a file of
\* that name the link is repaired: a fix is recorded for it, and the link
\* written into the content keeps the original link text and ends with the
\* original fragment.
C18_FragmentLinkRepaired ==
    [][BrokenFragmentLinkWithCandidates =>
          /\ file_stats'.fixed_links = file_stats.fixed_links + 1
          /\ LET fix == Last(file_stats'.fixes)
             IN /\ fix.old = Link.link_url
                /\ fix.text = Link.link_text
                /\ Len(fix.new) > Len(Anchor(Link.link_url))
                /\ SubSeq(fix.new, Len(fix.new) - Len(Anchor(Link.link_url)) + 1,
                          Len(fix.new)) = Anchor(Link.link_url)
                /\ content' = ReplaceFirst(content, Link.full_match,
                                           NewFullMatch(Link.link_text, fix.new))]_vars

(***************************************************************************)
(* The text a fix changes                                                  *)
(***************************************************************************)
\* the number of textual occurrences of `sub` in `str`
CountSub(str, sub) ==
    Cardinality({p \in 1..(Len(str) - Len(sub) + 1) : SubSeq(str, p, p + Len(sub) - 1) = sub})

\* fix_links_in_file is about to fix the link at hand
FixStep == AtLink /\ LinkIsBroken /\ HasCorrection /\ FixVerified(tree, FilePath, NewLink)

\* C19: a fix changes exactly one textual occurrence of the exact original
\* construct of its link, the first one in the content at that moment, and
\* leaves all other text unchanged: the other occurrences of the same
\* construct, the constructs of the other links of the file, and the
\* constructs written by the fixes made before.
C19_FixChangesOneOccurrenceOnly ==
    [][FixStep =>
          /\ FindSub(content, Link.full_match) # 0
          /\ content' = ReplaceFirst(content, Link.full_match,
                                     NewFullMatch(Link.link_text, NewLink))
          /\ CountSub(content', Link.full_match) = CountSub(content, Link.full_match) - 1
          /\ \A j \in 1..Len(links) :
                links[j].full_match # Link.full_match =>
                   CountSub(content', links[j].full_match)
                      = CountSub(content, links[j].full_match)
          /\ \A i \in 1..Len(file_stats.fixes) :
                LET written == NewFullMatch(file_stats.fixes[i].text, file_stats.fixes[i].new)
                IN CountSub(content', written) >= CountSub(content, written)]_vars

(***************************************************************************)
(* An empty result                                                         *)
(***************************************************************************)
\* the graph has a directed cycle, a self-edge included
HasCycle(g) == \E v \in DOMAIN g.adj : OnSomeCycle(g, v)

\* C20: find_circular_dependencies returns an empty list if and only if the
\* graph has no directed cycle, a self-edge counting as a cycle: when some
\* cycle exists at least one sequence is returned, and when none exists
\* nothing is returned, for every order of keys and edges.
C20_EmptyIffAcyclic ==
    pc = "done" => (unique_circulars = <<>> <=> ~HasCycle(graph))

\* the function has returned a cycle for a graph of three keys whose first
\* key lies on no cycle
C20_Witness ==
    /\ pc = "done"
    /\ Len(graph.keys) = 3
    /\ ~OnSomeCycle(graph, 1)
    /\ graph.adj[1] # <<>>
    /\ HasCycle(graph)
    /\ unique_circulars # <<>>

(***************************************************************************)
(* The sequences returned are cycles of the graph                          *)
(***************************************************************************)
\* r is a simple cycle of g, closed: at least two elements, the first equal
\* to the last, every consecutive pair an edge, and the elements before the
\* last pairwise distinct
IsClosedSimpleCycle(g, r) ==
    /\ Len(r) >= 2
    /\ r[1] = r[Len(r)]
    /\ \A i \in 1..(Len(r) - 1) : IsEdge(g, r[i], r[i + 1])
    /\ \A i, j \in 1..(Len(r) - 1) : i # j => r[i] # r[j]

\* C21: every sequence the traversal records, and so every sequence
\* returned, is a simple cycle of the input graph (at least two elements,
\* first equal to last, consecutive elements joined by an edge, elements
\* other than the last pairwise distinct); the recursion stack always holds
\* exactly the nodes of the current path, so the lookup of the cycle start
\* in the path never fails.
C21_ReturnedAreSimpleCycles ==
    /\ pc # "raised"
    /\ pc = "dfs" => rec_stack = Range(Top.path)
    /\ \A i \in 1..Len(circulars) : IsClosedSimpleCycle(graph, circulars[i])
    /\ \A i \in 1..Len(unique_circulars) : IsClosedSimpleCycle(graph, unique_circulars[i])

\* the function has returned a cycle of two nodes that does not pass
\* through the first key, from which the traversal reached it, and a
\* self-edge cycle
C21_Witness ==
    /\ pc = "done"
    /\ Len(graph.keys) = 3
    /\ ~OnSomeCycle(graph, graph.keys[1])
    /\ \E r \in Returned : Len(r) = 3 /\ graph.keys[1] \in visited /\ IsEdge(graph, graph.keys[1], r[1])
    /\ \E r \in Returned : Len(r) = 2

\* the name of a source file of the model without its extension
WithoutExtension(name) ==
    IF name = "a.ts" THEN "a"
    ELSE IF name = "b.ts" THEN "b"
    ELSE IF name = "c.tsx" THEN "c"
    ELSE "b.test"

\* the key of a scanned file in the graph (line 45)
KeyOf(file_path) == RelativeTo(file_path, ROOT_DIR)

\* file A holds an import of "./<name of B without extension>", A and B
\* lying in one directory
ImportsWithoutExtension(A, B) ==
    /\ Parent(A) = Parent(B)
    /\ Contains(AnalyzeImports(sources[A]), <<".", "/", WithoutExtension(Last(B)[1])>>)

\* C22: when scanned file A holds a relative reference that names scanned
\* file B without its extension ("./b" for b.ts), the edge list recorded
\* for A by build_dependency_graph holds B's key, and two files that import
\* each other this way lie together on a cycle returned by
\* find_circular_dependencies. (Violated: the edge is "src/b", the key is
\* "src/b.ts", and no cycle is returned.)
C22_ExtensionlessImportIsEdge ==
    pc \in {"roots", "dfs", "done"} =>
        \A A, B \in Range(files) :
            /\ (ImportsWithoutExtension(A, B)
                   => Contains(graph.adj[KeyOf(A)], KeyOf(B)))
            /\ (pc = "done" /\ ImportsWithoutExtension(A, B) /\ ImportsWithoutExtension(B, A)
                   => \E r \in Returned : KeyOf(A) \in Range(r) /\ KeyOf(B) \in Range(r))

\* the file of an entry of modified_files holds on disk the constructs of
\* all the fixes recorded for it, and is not what it was before the pass
FixesAreOnDisk(entry) ==
    LET on_disk == tree[PathOfRecord(entry)].text
    IN /\ on_disk # tree_before[PathOfRecord(entry)].text
       /\ \A i \in 1..Len(entry.fixes) :
             CountSub(on_disk, NewFullMatch(entry.fixes[i].text, entry.fixes[i].new)) > 0

\* C23: after a pass without dry run, a file is counted in files_modified
\* and listed with applied-fix records only if its content on disk was
\* changed to hold those fixes; a file whose write failed is not reported
\* as fixed. (Violated: the file's numbers are returned, counted and listed
\* after a write that raised, lines 258-260 and 291-302.)
C23_ReportedFixesAreOnDisk ==
    pc = "passed" /\ ~dry_run =>
        /\ \A i \in 1..Len(modified_files) : FixesAreOnDisk(modified_files[i])
        /\ stats.files_modified
              = Cardinality({f \in Range(md_files) : tree[f].text # tree_before[f].text})

\* the closed sequences r and q go round the same cycle of nodes: q is r
\* entered k places further on (k = 0: the same sequence)
IsRotationOf(r, q) ==
    /\ Len(r) = Len(q)
    /\ Len(r) >= 2
    /\ \E k \in 0..(Len(r) - 2) :
          \A i \in 1..Len(r) : q[i] = r[((i - 1 + k) % (Len(r) - 1)) + 1]

\* C24: the list returned by find_circular_dependencies never holds, at two
\* positions, sequences that are rotations of one another (the same cycle of
\* nodes entered at the same or at another offset): each cycle of nodes is
\* reported at most once. During the traversal two recorded sequences that
\* are rotations of one another are the same sequence.
C24_NoCycleReportedTwice ==
    /\ \A i, j \in 1..Len(unique_circulars) :
          i # j => ~IsRotationOf(unique_circulars[i], unique_circulars[j])
    /\ \A i, j \in 1..Len(circulars) :
          IsRotationOf(circulars[i], circulars[j]) => circulars[i] = circulars[j]

\* C24 witness: a cycle through three keys of the graph, each of them a
\* place where the traversal could have entered it, is returned, and the
\* traversal had recorded more sequences than it returns
C24_Witness ==
    /\ pc = "done"
    /\ \E r \in Returned :
          /\ Len(r) = 4
          /\ Range(r) \subseteq Range(graph.keys)
    /\ Len(circulars) > Len(unique_circulars)
    /\ Len(unique_circulars) >= 2

(***************************************************************************)
(* The confidence floor and the fallbacks of find_correct_path             *)
(***************************************************************************)
\* the scores of the candidates of the lookup at hand, in their order
LookupScores ==
    [i \in 1..Len(LookupCandidates) |-> ScoreOf(PathParts(lookup_link), LookupCandidates[i])]

\* best_score after the loop of lines 139-168
BestScore ==
    CHOOSE b \in {0} \cup Range(LookupScores) : \A i \in 1..Len(LookupScores) : LookupScores[i] <= b

\* the first of the candidates with the highest score
FirstHighest ==
    LookupCandidates[CHOOSE i \in 1..Len(LookupCandidates) :
                        /\ \A j \in 1..Len(LookupCandidates) : LookupScores[j] <= LookupScores[i]
                        /\ \A j \in 1..(i - 1) : LookupScores[j] < LookupScores[i]]

\* C25: in find_correct_path with two or more candidates, whenever the best
\* score is below the confidence floor every candidate is archival and the
\* result is the first candidate in enumeration order (the fallback to the
\* first non-archival candidate selects nothing); and if any candidate is
\* non-archival, the best score reaches the floor and the result is the
\* first highest-scoring candidate.
C25_BelowFloorOnlyArchival ==
    LookedUpSeveral =>
        /\ (BestScore < MinConfidence
               => /\ \A i \in 1..Len(LookupCandidates) : InArchive(LookupCandidates[i])
                  /\ lookup_result = Chosen(LookupCandidates[1]))
        /\ ((\E i \in 1..Len(LookupCandidates) : ~InArchive(LookupCandidates[i]))
               => /\ BestScore >= MinConfidence
                  /\ lookup_result = Chosen(FirstHighest))

\* C25 witness: every candidate is archival, the best score is positive and
\* below the floor, the candidate that has it is not the first one, and the
\* first candidate was returned
C25_Witness ==
    /\ LookedUpSeveral
    /\ BestScore > 0
    /\ BestScore < MinConfidence
    /\ FirstHighest # LookupCandidates[1]
    /\ lookup_result = Chosen(LookupCandidates[1])


====
